---- MODULE Spec2Model ----
(***************************************************************************)
(* Model of the benchmark harness of eval-recipes:                         *)
(*   src/eval_recipes/benchmarking/harness.py        (Harness)             *)
(*   src/eval_recipes/benchmarking/semantic_test.py  (semantic_test)       *)
(*                                                                         *)
(* Harness.run is modelled statement group by statement group: pc is the   *)
(* position inside run() / _run_tests(), exc the exception in flight.      *)
(* The Docker daemon, the agent command and the task's test script are    *)
(* the environment: every call into them may fail (a "fault"), and the     *)
(* test script may write any scorecard, a broken one, or none.             *)
(***************************************************************************)
EXTENDS Integers, Sequences, FiniteSets, TLC

(***************************************************************************)
(* Bounds                                                                  *)
(***************************************************************************)
NumTasks == 2
\* number of environment faults (daemon errors, broken streams, interrupts)
\* injected in one invocation
MaxFaults == 2
\* number of semantic_test calls one test script makes on its working_dir
MaxAudits == 3
\* number of harness invocations on one runs root
MaxInvocations == 2
\* the wall clock, in ticks of half a second, does not go beyond this
MaxClock == 2
\* length of the strings levenshtein_distance is applied to, character by character
MaxLen == 3

(***************************************************************************)
(* Fixtures: the configuration on disk and the data the environment emits  *)
(***************************************************************************)
\* agent.yaml / task.yaml: required_env_vars are lists
TaskRequired(t) == IF t % 3 = 1 THEN <<"Y">> ELSE IF t % 3 = 2 THEN <<"X", "W">> ELSE << >>
\* a task has a test_commands.sh or not
HasTestCommands(t) == t % 2 = 0

\* A directory name is the sequence of its words, the words being what the
\* underscores separate: <<1, 2>> is the name "1_2".
\* the agents directory holds one agent, the tasks directory NumTasks tasks
agents == << [name |-> <<1>>, required_env_vars |-> <<"X">>] >>
NumAgents == Len(agents)
tasks == [t \in 1..NumTasks |->
            [name |-> <<t>>, required_env_vars |-> TaskRequired(t),
             test_commands_script |-> HasTestCommands(t)]]

NumPairs == NumAgents * NumTasks

\* the nested loops "for agent in agents: for task in tasks" visit the
\* pairs in this order
AgentOf(p) == agents[((p - 1) \div NumTasks) + 1]
TaskOf(p) == tasks[((p - 1) % NumTasks) + 1]

\* the environments the harness may be constructed with
EnvValue(v) == IF v = "X" THEN "vx" ELSE IF v = "Y" THEN "vy" ELSE IF v = "W" THEN "vw" ELSE "vz"
Environments ==
    { [v \in {"X", "Y", "W", "Z"} |-> EnvValue(v)],
      [v \in {"X", "Y"} |-> EnvValue(v)],
      [v \in {"X", "W"} |-> EnvValue(v)] }

EmptyDict == [k \in {} |-> ""]
Range(s) == {s[i] : i \in DOMAIN s}

\* output chunks of an exec with stream=True, demux=True: (stdout, stderr)
\* tuples, None or b"" being the empty sequence; byte 255 is not valid UTF-8
Tup(o, e) == [tuple |-> TRUE, stdout |-> o, stderr |-> e, raw |-> << >>]
Raw(b) == [tuple |-> FALSE, stdout |-> << >>, stderr |-> << >>, raw |-> b]
AgentStream == << Tup(<<65>>, << >>), Tup(<<66>>, <<67>>) >>
PreStream == << Tup(<< >>, <<80>>) >>
TestStream == << Raw(<<84, 195>>), Tup(<<169>>, <<255, 69>>) >>

\* JSON objects a test script may write as its scorecard
ScoreCards ==
    { [score |-> 50, metadata |-> EmptyDict],
      [score |-> 0 - 5, metadata |-> [notes |-> "n"]],
      [score |-> 137, metadata |-> [notes |-> "n"], extra |-> "x"] }
\* a JSON object without a "score" key
NoScoreCard == [metadata |-> EmptyDict]
\* file contents written inside the container: a text that json.loads accepts
\* (holding obj) or rejects
JsonText(obj) == [parses |-> TRUE, obj |-> obj]
Garbage == [parses |-> FALSE, obj |-> EmptyDict]


(***************************************************************************)
(* Pure helpers of harness.py                                              *)
(***************************************************************************)
\* set(agent.required_env_vars + task.required_env_vars)
required_vars(agent, task) == Range(agent.required_env_vars \o task.required_env_vars)

\* a validation that looks at the agent's variables only
validate_agent_vars_only(agent, task, env) ==
    LET missing_vars == {var \in Range(agent.required_env_vars) : var \notin DOMAIN env}
    IN  <<missing_vars = {}, missing_vars>>

\* Harness._validate_required_env_vars: (success, missing_vars)
_validate_required_env_vars(agent, task, env) ==
    LET missing_vars == {var \in required_vars(agent, task) : var \notin DOMAIN env}
    IN  <<missing_vars = {}, missing_vars>>

\* a container environment that hands over the whole harness environment
container_env_whole_environment(agent, task, env) == env

\* Harness._get_container_env_vars
_get_container_env_vars(agent, task, env) ==
    [var \in {v \in required_vars(agent, task) : v \in DOMAIN env} |-> env[var]]

\* f"benchmark-{agent.name}-{task.name}".lower()
image_tag(agent, task) == <<"benchmark", agent.name, task.name>>

\* self.runs_dir / f"{agent.name}_{task.name}": the words of the agent name,
\* an underscore, the words of the task name
run_dir_of(agent, task) == agent.name \o task.name

\* f"/project/.eval_recipes_test_results_{test_id}.json"
result_file_path(id) == <<"/project/.eval_recipes_test_results_", id, ".json">>
TestPyPath == <<"/project/", 0, "test.py">>
TestCommandsPath == <<"/project/", 0, "test_commands.sh">>

\* a test id that is the same for every call
uuid4_constant(used) == 1

\* str(uuid.uuid4()): an identifier no earlier call returned
uuid4(used) ==
    CHOOSE i \in 1..(Cardinality(used) + 1) : i \notin used /\ \A j \in 1..(i - 1) : j \in used

\* the bytes one chunk adds to the log file ("if chunk: ... f.write(...)")
ChunkBytes(chunk) ==
    IF chunk.tuple THEN chunk.stdout \o chunk.stderr ELSE chunk.raw

\* bytes.decode("utf-8", errors="ignore"): a byte below 128 is one character; a
\* lead byte followed by a continuation byte is one character of two bytes; a
\* byte that begins no complete character is dropped.  Characters of three and
\* four bytes are left out: the streams hold no byte they begin with
IsUtf8(b) == b < 128
IsLead(b) == 194 <= b /\ b <= 223
IsContinuation(b) == 128 <= b /\ b <= 191
CodePoint(b1, b2) == (b1 - 192) * 64 + (b2 - 128)
RECURSIVE decode(_)
decode(bytes) ==
    IF bytes = << >> THEN << >>
    ELSE IF IsUtf8(Head(bytes)) THEN <<Head(bytes)>> \o decode(Tail(bytes))
    ELSE IF IsLead(Head(bytes)) /\ Len(bytes) >= 2 /\ IsContinuation(bytes[2])
    THEN <<CodePoint(bytes[1], bytes[2])>> \o decode(SubSeq(bytes, 3, Len(bytes)))
    ELSE decode(Tail(bytes))

\* the strings one chunk appends to test_output_lines
ChunkLines(chunk) ==
    IF chunk.tuple
    THEN (IF chunk.stdout # << >> THEN <<decode(chunk.stdout)>> ELSE << >>)
         \o (IF chunk.stderr # << >> THEN <<decode(chunk.stderr)>> ELSE << >>)
    ELSE (IF chunk.raw # << >> THEN <<decode(chunk.raw)>> ELSE << >>)

\* "".join(lines)
RECURSIVE join(_)
join(lines) == IF lines = << >> THEN << >> ELSE Head(lines) \o join(Tail(lines))

\* schemas.TestResult: score is a number in [0,100], clamped on ingest
Clamp(v) == IF v < 0 THEN 0 ELSE IF v > 100 THEN 100 ELSE v
\* variant: the score is stored as given
TestResult_unclamped(score, metadata, test_output) ==
    [none |-> FALSE, score |-> score, metadata |-> metadata, test_output |-> test_output]

TestResult(score, metadata, test_output) ==
    [none |-> FALSE, score |-> Clamp(score), metadata |-> metadata, test_output |-> test_output]
None == [none |-> TRUE, score |-> 0, metadata |-> EmptyDict, test_output |-> << >>]

\* a directory or a dict: write / lookup
Put(f, k, v) == [x \in DOMAIN f \cup {k} |-> IF x = k THEN v ELSE f[x]]
EmptyDir == [n \in {} |-> << >>]

(***************************************************************************)
(* State                                                                   *)
(***************************************************************************)
VARIABLES
    environment,        \* self.environment
    pairIdx,            \* the pair the nested loops of run() are at
    pc,                 \* position inside run() / _run_tests()
    exc,                \* exception propagating out of the try block, or "none"
    images,             \* Docker daemon: tags of the images that exist
    containers,         \* Docker daemon: ids of the containers that exist
    containerEnv,       \* Docker daemon: environment each container was created with
    project,            \* files under /project of the container of the pair in progress
    runDirs,            \* host file system: directories under self.runs_dir
    stream,             \* exec_result.output: the chunks not yet received
    test_id,            \* _run_tests: test_id
    usedIds,            \* the values uuid4 has returned so far
    exec_env,           \* EVAL_RECIPES_TEST_ID the test process was started with
    test_output_lines,  \* _run_tests: test_output_lines
    result,             \* _run_tests: result of "cat <result_file_path>"
    test_result,        \* run(): test_result
    ops,                \* history: the steps taken, in order
    logged,             \* loguru: the warnings and errors emitted
    faults              \* number of faults the environment has injected

\* semantic_test (semantic_test.py)
VARIABLES
    rubric,             \* argument: the keys of the rubric schema
    rubric_file,        \* working_dir/audit_output/rubric.json: its content, or absent
    sem_pc,             \* position inside semantic_test
    sem_result,         \* the SemanticTestResult returned
    sem_exc,            \* the exception semantic_test raised, or "none"
    sem_ops,            \* history: the steps of the call in progress, in order
    audits              \* number of semantic_test calls the test script has made

\* run_test of a semantic task (data/tasks/*/test.py)
VARIABLES
    script,             \* arguments and constants: the test_id, the weight of each audit
    results,            \* result_1, result_2, ...: the scores of the audits that returned
    writes,             \* history: the scorecard files written, in order
    rubric_written,     \* history: the sub-agent wrote rubric.json in this call of semantic_test
    exit_status         \* the value run_test returned, if it has

rvars == <<script, results, writes, rubric_written, exit_status>>

\* the command line, Harness.__init__, _load_agents, _load_tasks and the
\* directories of run(), over several invocations
VARIABLES
    agents_dir,         \* the entries of agents_dir: name -> what the entry holds
    tasks_dir,          \* the entries of tasks_dir
    load_pc,            \* position inside an invocation
    todo,               \* the entries iterdir() has not yielded yet
    loaded_agents,      \* the list _load_agents builds
    loaded_tasks,       \* the list _load_tasks builds
    load_logged,        \* the warnings of the loaders
    load_exc,           \* the exception that ended the invocation, or "none"
    clock,              \* wall clock, in ticks
    invocation,         \* number of the invocation in progress
    runs_dir,           \* self.runs_dir: the components of the path
    next_pair,          \* position of the nested loops of run()
    made                \* history: the run_dir each pair of each invocation made

lvars == <<agents_dir, tasks_dir, load_pc, todo, loaded_agents, loaded_tasks, load_logged,
          load_exc, clock, invocation, runs_dir, next_pair, made>>

\* the test scripts that use no sub-agent (gdpval_extraction,
\* arxiv_conclusion_extraction) and their levenshtein_distance
VARIABLES
    prog,               \* which program runs: "gdpval", "arxiv" or "levenshtein"
    lev_args,           \* levenshtein_distance: the arguments s1, s2
    lev_ret,            \* levenshtein_distance: the value returned, once it has returned
    lev_i,              \* levenshtein_distance inside arxiv's main(): the row of the outer loop
    lev_previous_row,       \* levenshtein_distance inside arxiv's main(): previous_row
    conclusion,         \* /project/Conclusion.txt
    workdir,            \* /project of gdpval: the CSV, the summary, what the verifier will do
    py_pc,              \* position inside main()
    py_ops,             \* history: the checks main() has run, in order
    py_writes,          \* history: the scorecards main() has written
    py_exit             \* how main() ended: exit status or exception

pvars == <<prog, lev_args, lev_ret, lev_i, lev_previous_row, conclusion, workdir,
           py_pc, py_ops, py_writes, py_exit>>
\* the inputs of the test scripts
pinputs == <<prog, conclusion, workdir>>
\* the call of levenshtein_distance in progress
levvars == <<lev_args, lev_ret, lev_i, lev_previous_row>>

\* what the actions of Harness.run leave alone
svars == <<rubric, rubric_file, sem_pc, sem_result, sem_exc, sem_ops, audits, rvars, lvars,
          pvars>>

\* what the actions of semantic_test and run_test leave alone
hvars == <<environment, pairIdx, pc, exc, images, containers, containerEnv, project,
          runDirs, stream, test_id, usedIds, exec_env, test_output_lines, result,
          test_result, ops, logged, faults, lvars, pvars>>

\* the harness, semantic_test and run_test
basevars == <<environment, pairIdx, pc, exc, images, containers, containerEnv, project,
             runDirs, stream, test_id, usedIds, exec_env, test_output_lines, result,
             test_result, ops, logged, faults,
             rubric, rubric_file, sem_pc, sem_result, sem_exc, sem_ops, audits, rvars>>

\* what the actions of the loaders leave alone
nlvars == <<basevars, pvars>>

\* what the actions of the test scripts without sub-agent leave alone
npvars == <<basevars, lvars>>

vars == <<nlvars, lvars>>

agent == AgentOf(pairIdx)
task == TaskOf(pairIdx)
run_dir == run_dir_of(agent, task)
container_id == pairIdx

NoResult == [exit_code |-> 1, output |-> Garbage, writer |-> 0]

\* run_test has not returned / has returned v
Running == [returned |-> FALSE, value |-> 0]
Returned(v) == [returned |-> TRUE, value |-> v]

\* semantic_test has not been called
SemNone == [none |-> TRUE, score |-> 0, metadata |-> EmptyDict]
SemIdle ==
    /\ rubric = {"score"}
    /\ rubric_file = {}
    /\ sem_pc = "idle"
    /\ sem_result = SemNone
    /\ sem_exc = "none"
    /\ sem_ops = << >>
    /\ audits = 0
    /\ script = [test_id |-> 0, weights |-> <<100>>]
    /\ results = << >>
    /\ writes = << >>
    /\ rubric_written = FALSE
    /\ exit_status = Running

\* Harness.__init__ and the locals of run() before the first pair
HarnessStart ==
    /\ pairIdx = 1
    /\ pc = "loop"
    /\ exc = "none"
    /\ images = {}
    /\ containers = {}
    /\ containerEnv = << >>
    /\ project = {}
    /\ runDirs = << >>
    /\ stream = << >>
    /\ test_id = 0
    /\ usedIds = {}
    /\ exec_env = 0
    /\ test_output_lines = << >>
    /\ result = NoResult
    /\ test_result = None
    /\ ops = << >>
    /\ logged = {}
    /\ faults = 0

\* the loaders have returned the fixture lists
LoadIdle ==
    /\ agents_dir = << >>
    /\ tasks_dir = << >>
    /\ load_pc = "pairs"
    /\ todo = {}
    /\ loaded_agents = agents
    /\ loaded_tasks = tasks
    /\ load_logged = {}
    /\ load_exc = "none"
    /\ clock = 0
    /\ invocation = 1
    /\ runs_dir = << >>
    /\ next_pair = 1
    /\ made = << >>

\* no test script without sub-agent runs
NoFile == [exists |-> FALSE, readable |-> FALSE, text |-> << >>]
NoWorkdir == [csv_exists |-> FALSE, csv_loads |-> FALSE, has_prompt |-> FALSE, nrows |-> 0,
              prompts |-> {}, summary |-> "missing",
              verifier |-> [kind |-> "raises", score |-> 0]]
ScriptsIdle ==
    /\ prog = "none"
    /\ lev_args = << << >>, << >> >>
    /\ lev_ret = Running
    /\ lev_i = 0
    /\ lev_previous_row = << >>
    /\ conclusion = NoFile
    /\ workdir = NoWorkdir
    /\ py_pc = "idle"
    /\ py_ops = << >>
    /\ py_writes = << >>
    /\ py_exit = Running

Init ==
    /\ environment \in Environments
    /\ HarnessStart
    /\ SemIdle
    /\ LoadIdle
    /\ ScriptsIdle

Step(op, arg) == [pair |-> pairIdx, op |-> op, arg |-> arg]
Log(level, what) == logged \cup {<<level, pairIdx, what>>}
Fault == faults < MaxFaults /\ faults' = faults + 1


(***************************************************************************)
(* Harness.run                                                             *)
(***************************************************************************)
\* the statements of the pair loop that lie inside "try: ... finally:"
InTry == {"build", "create", "agent_exec", "agent_stream", "logs", "t_inject", "t_pre",
          "t_pre_stream", "t_exec", "t_stream", "t_cat", "t_parse", "rm_container"}

\* an exception leaves the try block: the finally clause runs next
Raise(e) == exc' = e /\ pc' = "finally_image"

\* harness.py 281-292: loop head and env gate
Gate ==
    /\ pc = "loop" /\ pairIdx <= NumPairs
    /\ LET v == _validate_required_env_vars(agent, task, environment)
       IN  IF v[1]
           THEN /\ pc' = "build"
                /\ UNCHANGED <<pairIdx, ops, logged>>
           ELSE /\ logged' = Log("error", "Missing required environment variables")
                /\ ops' = Append(ops, Step("env_blocked", 0))
                /\ pairIdx' = pairIdx + 1
                /\ pc' = "loop"
    /\ UNCHANGED <<svars, environment, exc, images, containers, containerEnv, project, runDirs,
                   stream, test_id, usedIds, exec_env, test_output_lines, result,
                   test_result, faults>>

\* variant: a rejected build is ignored and the container is started all the same
Build_failure_ignored ==
    /\ pc = "build"
    /\ \/ /\ images' = images \cup {image_tag(agent, task)}
          /\ ops' = Append(ops, Step("build", 0))
          /\ UNCHANGED faults
       \/ /\ Fault
          /\ ops' = Append(ops, Step("build_failed", 0))
          /\ UNCHANGED images
    /\ pc' = "create"
    /\ UNCHANGED <<svars, environment, pairIdx, exc, containers, containerEnv, project,
                   runDirs, stream, test_id, usedIds, exec_env, test_output_lines, result,
                   test_result, logged>>

\* harness.py 294-302: client.images.build
Build ==
    /\ pc = "build"
    /\ \/ /\ images' = images \cup {image_tag(agent, task)}
          /\ ops' = Append(ops, Step("build", 0))
          /\ pc' = "create"
          /\ UNCHANGED <<exc, faults>>
       \/ /\ Fault
          /\ ops' = Append(ops, Step("build_failed", 0))
          /\ Raise("BuildError")
          /\ UNCHANGED images
    /\ UNCHANGED <<svars, environment, pairIdx, containers, containerEnv, project, runDirs,
                   stream, test_id, usedIds, exec_env, test_output_lines, result,
                   test_result, logged>>

\* what /project holds when a container starts: nothing, or scorecard files
\* that earlier test executions left in a shared file system
StaleCard == [score |-> 77, metadata |-> [notes |-> "stale"]]
StaleFiles ==
    {[path |-> result_file_path(i), content |-> JsonText(StaleCard), writer |-> 0] : i \in usedIds}

\* variant: a container that cannot be started ends run() at once, the finally
\* clause left out
Create_failure_leaves ==
    /\ pc = "create"
    /\ \/ /\ containers' = containers \cup {container_id}
          /\ containerEnv' =
                Put(containerEnv, container_id, _get_container_env_vars(agent, task, environment))
          /\ project' \in {{}, StaleFiles}
          /\ ops' = Append(ops, Step("create", 0))
          /\ pc' = "agent_exec"
          /\ UNCHANGED <<exc, faults>>
       \/ /\ Fault
          /\ ops' = Append(ops, Step("create_failed", 0))
          /\ exc' = "APIError"
          /\ pc' = "raised"
          /\ UNCHANGED <<containers, containerEnv, project>>
    /\ UNCHANGED <<svars, environment, pairIdx, images, runDirs, stream, test_id, usedIds,
                   exec_env, test_output_lines, result, test_result, logged>>

\* harness.py 304-313: client.containers.run
Create ==
    /\ pc = "create"
    /\ \/ /\ containers' = containers \cup {container_id}
          /\ containerEnv' =
                Put(containerEnv, container_id, _get_container_env_vars(agent, task, environment))
          /\ project' \in {{}, StaleFiles}
          /\ ops' = Append(ops, Step("create", 0))
          /\ pc' = "agent_exec"
          /\ UNCHANGED <<exc, faults>>
       \/ /\ Fault
          /\ ops' = Append(ops, Step("create_failed", 0))
          /\ Raise("APIError")
          /\ UNCHANGED <<containers, containerEnv, project>>
    /\ UNCHANGED <<svars, environment, pairIdx, images, runDirs, stream, test_id, usedIds,
                   exec_env, test_output_lines, result, test_result, logged>>

\* run_dir.mkdir(parents=True, exist_ok=True)
mkdir(dirs, d) == IF d \in DOMAIN dirs THEN dirs ELSE Put(dirs, d, EmptyDir)
\* path.open("wb"): the file exists and is empty
OpenWb(dirs, d, name) == Put(dirs, d, Put(dirs[d], name, << >>))
\* f.write(bytes)
Write(dirs, d, name, bytes) == Put(dirs, d, Put(dirs[d], name, dirs[d][name] \o bytes))

\* harness.py 314-339: run_dir, render the command, container.exec_run, open output.log
AgentExec ==
    /\ pc = "agent_exec"
    /\ \/ /\ runDirs' = OpenWb(mkdir(runDirs, run_dir), run_dir, "output.log")
          /\ stream' = AgentStream
          /\ ops' = Append(ops, Step("exec_agent", 0))
          /\ pc' = "agent_stream"
          /\ UNCHANGED <<exc, faults>>
       \/ /\ Fault
          /\ runDirs' = mkdir(runDirs, run_dir)
          /\ ops' = Append(ops, Step("exec_agent_failed", 0))
          /\ Raise("APIError")
          /\ UNCHANGED stream
    /\ UNCHANGED <<svars, environment, pairIdx, images, containers, containerEnv, project,
                   test_id, usedIds, exec_env, test_output_lines, result, test_result,
                   logged>>

\* the exit status the agent's command ends with on the task: it fails on
\* every third task
AgentExitCode(t) == IF Head(t.name) % 3 = 1 THEN 2 ELSE 0

\* variant: an agent command that exits non-zero ends the pair as an exception
AgentStreamStep_checks_exit ==
    /\ pc = "agent_stream"
    /\ \/ /\ stream # << >>
          /\ runDirs' = Write(runDirs, run_dir, "output.log", ChunkBytes(Head(stream)))
          /\ stream' = Tail(stream)
          /\ UNCHANGED <<pc, exc, ops, faults>>
       \/ /\ stream = << >>
          /\ ops' = Append(ops, Step("agent_done", AgentExitCode(task)))
          /\ IF AgentExitCode(task) = 0
             THEN pc' = "logs" /\ UNCHANGED exc
             ELSE Raise("AgentFailed")
          /\ UNCHANGED <<runDirs, stream, faults>>
       \/ /\ Fault
          /\ ops' = Append(ops, Step("agent_stream_broken", 0))
          /\ Raise("APIError")
          /\ UNCHANGED <<runDirs, stream>>
    /\ UNCHANGED <<svars, environment, pairIdx, images, containers, containerEnv, project,
                   test_id, usedIds, exec_env, test_output_lines, result, test_result,
                   logged>>

\* harness.py 340-352: "for chunk in exec_result.output"; the exit status of
\* the command is not fetched
AgentStreamStep ==
    /\ pc = "agent_stream"
    /\ \/ /\ stream # << >>
          /\ runDirs' = Write(runDirs, run_dir, "output.log", ChunkBytes(Head(stream)))
          /\ stream' = Tail(stream)
          /\ UNCHANGED <<pc, exc, ops, faults>>
       \/ /\ stream = << >>
          /\ ops' = Append(ops, Step("agent_done", AgentExitCode(task)))
          /\ pc' = "logs"
          /\ UNCHANGED <<runDirs, stream, exc, faults>>
       \/ /\ Fault
          /\ ops' = Append(ops, Step("agent_stream_broken", 0))
          /\ Raise("APIError")
          /\ UNCHANGED <<runDirs, stream>>
    /\ UNCHANGED <<svars, environment, pairIdx, images, containers, containerEnv, project,
                   test_id, usedIds, exec_env, test_output_lines, result, test_result,
                   logged>>

\* what container.logs() returns: the output of the main process of the image,
\* which is empty for some tasks
ContainerLogBytes(t) == IF Head(t.name) % 2 = 1 THEN <<76>> ELSE << >>

\* harness.py 354-359: container.logs()
ContainerLogs ==
    /\ pc = "logs"
    /\ \/ /\ LET logs == ContainerLogBytes(task)
             IN  runDirs' = IF logs # << >>
                            THEN Put(runDirs, run_dir, Put(runDirs[run_dir], "container.log", logs))
                            ELSE runDirs
          /\ pc' = "t_inject"
          /\ UNCHANGED <<exc, faults>>
       \/ /\ Fault
          /\ Raise("APIError")
          /\ UNCHANGED runDirs
    /\ UNCHANGED <<svars, environment, pairIdx, images, containers, containerEnv, project,
                   stream, test_id, usedIds, exec_env, test_output_lines, result,
                   test_result, ops, logged>>


(***************************************************************************)
(* Harness._run_tests                                                      *)
(***************************************************************************)
\* variant: after a failed Test Runner the pair goes straight to the finally
\* clause
TestsFail_skips_container ==
    /\ test_result' = None
    /\ logged' = (Log("error", "Failed to run tests")
                    \cup {<<"warning", pairIdx, "Tests failed or could not be parsed">>})
    /\ pc' = "finally_image"

\* harness.py 271-273 and 363-366: "except Exception" returns None, run() warns
TestsFail ==
    /\ test_result' = None
    /\ logged' = (Log("error", "Failed to run tests")
                    \cup {<<"warning", pairIdx, "Tests failed or could not be parsed">>})
    /\ pc' = "rm_container"

\* the files put_archive adds to /project
Archive(t) ==
    {[path |-> TestPyPath, content |-> Garbage, writer |-> 0]}
    \cup (IF t.test_commands_script
          THEN {[path |-> TestCommandsPath, content |-> Garbage, writer |-> 0]}
          ELSE {})

\* variant: the pre-step is run whether or not the task has a test_commands.sh
T_Inject_always_pre ==
    /\ pc = "t_inject"
    /\ test_id' = uuid4(usedIds)
    /\ usedIds' = usedIds \cup {test_id'}
    /\ test_output_lines' = << >>
    /\ result' = NoResult
    /\ project' = project \cup Archive(task)
    /\ ops' = Append(ops, Step("put_archive", 0))
    /\ pc' = "t_pre"
    /\ UNCHANGED <<svars, environment, pairIdx, exc, images, containers, containerEnv, runDirs,
                   stream, exec_env, test_result, logged, faults>>

\* harness.py 157-183: test_id, tar archive, container.put_archive
T_Inject ==
    /\ pc = "t_inject"
    /\ test_id' = uuid4(usedIds)
    /\ usedIds' = usedIds \cup {test_id'}
    /\ test_output_lines' = << >>
    /\ result' = NoResult
    /\ \/ /\ project' = project \cup Archive(task)
          /\ ops' = Append(ops, Step("put_archive", 0))
          /\ pc' = IF task.test_commands_script THEN "t_pre" ELSE "t_exec"
          /\ UNCHANGED <<test_result, logged, faults>>
       \/ /\ Fault
          /\ TestsFail
          /\ UNCHANGED <<project, ops>>
    /\ UNCHANGED <<svars, environment, pairIdx, exc, images, containers, containerEnv, runDirs,
                   stream, exec_env>>

\* harness.py 185-197: exec test_commands.sh, open test_commands_output.log
T_Pre ==
    /\ pc = "t_pre"
    /\ \/ /\ runDirs' = OpenWb(runDirs, run_dir, "test_commands_output.log")
          /\ stream' = PreStream
          /\ ops' = Append(ops, Step("exec_pre", 0))
          /\ pc' = "t_pre_stream"
          /\ UNCHANGED <<test_result, logged, faults>>
       \/ /\ Fault
          /\ TestsFail
          /\ UNCHANGED <<runDirs, stream, ops>>
    /\ UNCHANGED <<svars, environment, pairIdx, exc, images, containers, containerEnv, project,
                   test_id, usedIds, exec_env, test_output_lines, result>>

\* the exit status the task's test_commands.sh ends with: the script of every
\* other task that has one fails
PreExitCode(t) == IF Head(t.name) % 4 = 2 THEN 1 ELSE 0

\* variant: a pre-step that exits non-zero makes the test step fail
T_PreStreamStep_checks_exit ==
    /\ pc = "t_pre_stream"
    /\ \/ /\ stream # << >>
          /\ runDirs' = Write(runDirs, run_dir, "test_commands_output.log",
                              ChunkBytes(Head(stream)))
          /\ stream' = Tail(stream)
          /\ UNCHANGED <<pc, test_result, logged, ops>>
       \/ /\ stream = << >>
          /\ ops' = Append(ops, Step("pre_done", PreExitCode(task)))
          /\ IF PreExitCode(task) = 0
             THEN pc' = "t_exec" /\ UNCHANGED <<test_result, logged>>
             ELSE TestsFail
          /\ UNCHANGED <<runDirs, stream>>
    /\ UNCHANGED <<svars, environment, pairIdx, exc, images, containers, containerEnv, project,
                   test_id, usedIds, exec_env, test_output_lines, result, faults>>

\* harness.py 198-209: the output is copied to the log until the stream ends,
\* which is when test_commands.sh has exited; its exit status is not looked at
T_PreStreamStep ==
    /\ pc = "t_pre_stream"
    /\ \/ /\ stream # << >>
          /\ runDirs' = Write(runDirs, run_dir, "test_commands_output.log",
                              ChunkBytes(Head(stream)))
          /\ stream' = Tail(stream)
          /\ UNCHANGED <<pc, test_result, logged, ops, faults>>
       \/ /\ stream = << >>
          /\ ops' = Append(ops, Step("pre_done", PreExitCode(task)))
          /\ pc' = "t_exec"
          /\ UNCHANGED <<runDirs, stream, test_result, logged, faults>>
       \/ /\ Fault
          /\ TestsFail
          /\ UNCHANGED <<runDirs, stream, ops>>
    /\ UNCHANGED <<svars, environment, pairIdx, exc, images, containers, containerEnv, project,
                   test_id, usedIds, exec_env, test_output_lines, result>>

\* a test exec whose output stream is not drained before the scorecard is read
T_Exec_not_drained ==
    /\ pc = "t_exec"
    /\ exec_env' = test_id
    /\ runDirs' = OpenWb(runDirs, run_dir, "test_output.log")
    /\ stream' = TestStream
    /\ ops' = Append(ops, Step("exec_test", test_id))
    /\ pc' = "t_cat"
    /\ UNCHANGED <<svars, environment, pairIdx, exc, images, containers, containerEnv,
                   project, test_id, usedIds, test_output_lines, result, test_result,
                   logged, faults>>

\* harness.py 211-223: exec test.py with EVAL_RECIPES_TEST_ID, open test_output.log
T_Exec ==
    /\ pc = "t_exec"
    /\ \/ /\ exec_env' = test_id
          /\ runDirs' = OpenWb(runDirs, run_dir, "test_output.log")
          /\ stream' = TestStream
          /\ ops' = Append(ops, Step("exec_test", test_id))
          /\ pc' = "t_stream"
          /\ UNCHANGED <<test_result, logged, faults>>
       \/ /\ Fault
          /\ TestsFail
          /\ UNCHANGED <<runDirs, stream, ops, exec_env>>
    /\ UNCHANGED <<svars, environment, pairIdx, exc, images, containers, containerEnv, project,
                   test_id, usedIds, test_output_lines, result>>

\* what the test process leaves in /project when it exits: its scorecard, named
\* after the EVAL_RECIPES_TEST_ID it was given, a broken one, or nothing
ScriptWrites(files, id, who) ==
    {files}
    \cup { {f \in files : f.path # result_file_path(id)}
             \cup {[path |-> result_file_path(id), content |-> c, writer |-> who]} :
           c \in {JsonText(card) : card \in ScoreCards \cup {NoScoreCard}} \cup {Garbage} }

\* harness.py 224-239
T_StreamStep ==
    /\ pc = "t_stream"
    /\ \/ /\ stream # << >>
          /\ runDirs' = Write(runDirs, run_dir, "test_output.log", ChunkBytes(Head(stream)))
          /\ test_output_lines' = test_output_lines \o ChunkLines(Head(stream))
          /\ stream' = Tail(stream)
          /\ UNCHANGED <<pc, project, test_result, logged, ops, faults>>
       \/ /\ stream = << >>
          /\ project' \in ScriptWrites(project, exec_env, pairIdx)
          /\ ops' = Append(ops, Step("test_done", 0))
          /\ pc' = "t_cat"
          /\ UNCHANGED <<runDirs, stream, test_output_lines, test_result, logged, faults>>
       \/ /\ Fault
          /\ TestsFail
          /\ UNCHANGED <<runDirs, stream, test_output_lines, project, ops>>
    /\ UNCHANGED <<svars, environment, pairIdx, exc, images, containers, containerEnv,
                   test_id, usedIds, exec_env, result>>

\* container.exec_run(["cat", path]): exit code and content
Cat(files, path) ==
    IF \E f \in files : f.path = path
    THEN LET f == CHOOSE g \in files : g.path = path
         IN  [exit_code |-> 0, output |-> f.content, writer |-> f.writer]
    ELSE [exit_code |-> 1, output |-> Garbage, writer |-> 0]

\* harness.py 241-243
T_Cat ==
    /\ pc = "t_cat"
    /\ \/ /\ result' = Cat(project, result_file_path(test_id))
          /\ ops' = Append(ops, Step("cat", test_id))
          /\ pc' = "t_parse"
          /\ UNCHANGED <<test_result, logged, faults>>
       \/ /\ Fault
          /\ TestsFail
          /\ UNCHANGED <<result, ops>>
    /\ UNCHANGED <<svars, environment, pairIdx, exc, images, containers, containerEnv, project,
                   runDirs, stream, test_id, usedIds, exec_env, test_output_lines>>

\* result_data.get("metadata", {})
GetMetadata(obj) == IF "metadata" \in DOMAIN obj THEN obj.metadata ELSE EmptyDict

\* json.dumps(obj, indent=2) writes one line per member, nested objects being
\* indented by two more columns.  A line is its indent, its key, the kind of
\* its value and the value; the keys come in the order KeyOrder.
KeyOrder == <<"score", "metadata", "extra", "notes", "error">>
Keys(d) == SelectSeq(KeyOrder, LAMBDA k : k \in DOMAIN d)
Line(indent, key, kind, num, str) ==
    [indent |-> indent, key |-> key, kind |-> kind, num |-> num, str |-> str]
\* the members of a nested object: strings
InnerLines(d) == [i \in 1..Len(Keys(d)) |-> Line(4, Keys(d)[i], "str", 0, d[Keys(d)[i]])]
\* a member of the top-level object: the score is a number, the metadata an
\* object ("{}" on the line itself when empty), anything else a string
ValueLines(k, v) ==
    IF k = "score" THEN <<Line(2, k, "num", v, "")>>
    ELSE IF k = "metadata"
    THEN IF DOMAIN v = {}
         THEN <<Line(2, k, "empty", 0, "")>>
         ELSE <<Line(2, k, "open", 0, "")>> \o InnerLines(v) \o <<Line(2, "", "close", 0, "")>>
    ELSE <<Line(2, k, "str", 0, v)>>
RECURSIVE ObjectLines(_, _)
ObjectLines(d, keys) ==
    IF keys = << >> THEN << >>
    ELSE ValueLines(Head(keys), d[Head(keys)]) \o ObjectLines(d, Tail(keys))

\* variant: what is written is the validated result, score clamped
json_dumps_clamped(obj) ==
    [parses |-> TRUE,
     lines |-> <<Line(0, "", "open", 0, "")>>
               \o ObjectLines([k \in DOMAIN obj |-> IF k = "score" THEN Clamp(obj[k]) ELSE obj[k]],
                              Keys(obj))
               \o <<Line(0, "", "close", 0, "")>>]

\* json.dumps(obj, indent=2)
json_dumps(obj) ==
    [parses |-> TRUE,
     lines |-> <<Line(0, "", "open", 0, "")>> \o ObjectLines(obj, Keys(obj))
               \o <<Line(0, "", "close", 0, "")>>]

\* the parser on pretty-printed lines: the members at indent 2, the value of an
\* opened object being the members between its line and the next indent-2 line
json_parse(lines) ==
    LET top == {i \in DOMAIN lines : lines[i].indent = 2 /\ lines[i].kind # "close"}
        last(k) == CHOOSE i \in top :
                      lines[i].key = k /\ \A j \in top : lines[j].key = k => j <= i
        end(i) == CHOOSE j \in (i + 1)..Len(lines) :
                      lines[j].indent = 2 /\ \A h \in (i + 1)..(j - 1) : lines[h].indent # 2
        inner(i) == (i + 1)..(end(i) - 1)
        value(i) ==
            IF lines[i].kind = "num" THEN lines[i].num
            ELSE IF lines[i].kind = "str" THEN lines[i].str
            ELSE IF lines[i].kind = "empty" THEN EmptyDict
            ELSE [k \in {lines[j].key : j \in inner(i)} |->
                     lines[CHOOSE j \in inner(i) : lines[j].key = k].str]
    IN  [k \in {lines[i].key : i \in top} |-> value(last(k))]

\* json.loads(text): of a text written by json.dumps, or of one written in
\* the container
json_loads(text) == IF "lines" \in DOMAIN text THEN json_parse(text.lines) ELSE text.obj

\* harness.py 245-273 and 363-366
T_Parse ==
    /\ pc = "t_parse"
    /\ IF result.exit_code = 0
       THEN IF result.output.parses /\ "score" \in DOMAIN json_loads(result.output)
            THEN LET result_data == json_loads(result.output)
                 IN  /\ test_result' = TestResult(result_data.score, GetMetadata(result_data),
                                                  join(test_output_lines))
                     /\ runDirs' = Put(runDirs, run_dir,
                                       Put(runDirs[run_dir], "test_results.json",
                                           json_dumps(result_data)))
                     /\ ops' = Append(ops, Step("ingest", result.writer))
                     /\ pc' = "rm_container"
                     /\ UNCHANGED logged
            ELSE /\ TestsFail
                 /\ UNCHANGED <<runDirs, ops>>
       ELSE /\ test_result' = TestResult(0, [error |-> "No results file found"],
                                         join(test_output_lines))
            /\ logged' = Log("warning", "Could not read results file")
            /\ pc' = "rm_container"
            /\ UNCHANGED <<runDirs, ops>>
    /\ UNCHANGED <<svars, environment, pairIdx, exc, images, containers, containerEnv, project,
                   stream, test_id, usedIds, exec_env, test_output_lines, result, faults>>

(***************************************************************************)
(* Teardown                                                                *)
(***************************************************************************)
\* a teardown that goes on to the image without removing the container
RemoveContainer_skipped ==
    /\ pc = "rm_container"
    /\ pc' = "finally_image"
    /\ UNCHANGED <<svars, environment, pairIdx, exc, images, containers, containerEnv,
                   project, runDirs, stream, test_id, usedIds, exec_env, test_output_lines,
                   result, test_result, ops, logged, faults>>

\* variant: a rejected container removal leaves the try block as an exception
RemoveContainer_propagates ==
    /\ pc = "rm_container"
    /\ \/ /\ containers' = containers \ {container_id}
          /\ ops' = Append(ops, Step("rm_container", 0))
          /\ UNCHANGED <<logged, faults, exc>>
       \/ /\ Fault
          /\ exc' = "APIError"
          /\ ops' = Append(ops, Step("rm_container_failed", 0))
          /\ UNCHANGED <<containers, logged>>
    /\ pc' = "finally_image"
    /\ UNCHANGED <<svars, environment, pairIdx, images, containerEnv, project, runDirs,
                   stream, test_id, usedIds, exec_env, test_output_lines, result,
                   test_result>>

\* harness.py 368-374: container.remove(force=True), "except Exception" warns
RemoveContainer ==
    /\ pc = "rm_container"
    /\ \/ /\ containers' = containers \ {container_id}
          /\ ops' = Append(ops, Step("rm_container", 0))
          /\ UNCHANGED <<logged, faults>>
       \/ /\ Fault
          /\ logged' = Log("warning", "Failed to remove container")
          /\ ops' = Append(ops, Step("rm_container_failed", 0))
          /\ UNCHANGED containers
    /\ pc' = "finally_image"
    /\ UNCHANGED <<svars, environment, pairIdx, exc, images, containerEnv, project, runDirs,
                   stream, test_id, usedIds, exec_env, test_output_lines, result,
                   test_result>>

\* harness.py 375-381: finally: client.images.remove(image_tag, force=True); then
\* the next pair, or the exception leaves run() through client.close()
FinallyImage ==
    /\ pc = "finally_image"
    /\ \/ /\ image_tag(agent, task) \in images
          /\ images' = images \ {image_tag(agent, task)}
          /\ ops' = Append(ops, Step("rm_image", 0))
          /\ UNCHANGED <<logged, faults>>
       \/ /\ IF image_tag(agent, task) \in images THEN Fault ELSE UNCHANGED faults
          /\ logged' = Log("warning", "Failed to remove image")
          /\ ops' = Append(ops, Step("rm_image_failed", 0))
          /\ UNCHANGED images
    /\ IF exc = "none"
       THEN pairIdx' = pairIdx + 1 /\ pc' = "loop"
       ELSE pc' = "raised" /\ UNCHANGED pairIdx
    /\ UNCHANGED <<svars, environment, exc, containers, containerEnv, project, runDirs, stream,
                   test_id, usedIds, exec_env, test_output_lines, result, test_result>>

\* harness.py 281, 380-381: the loops are exhausted, client.close(), run() returns
Finish ==
    /\ pc = "loop" /\ pairIdx > NumPairs
    /\ pc' = "returned"
    /\ UNCHANGED <<svars, environment, pairIdx, exc, images, containers, containerEnv, project,
                   runDirs, stream, test_id, usedIds, exec_env, test_output_lines, result,
                   test_result, ops, logged, faults>>

\* the process is interrupted (KeyboardInterrupt, not an Exception): inside the
\* try block the finally clause still runs, elsewhere run() is left at once
Interrupt ==
    /\ pc \in InTry \cup {"loop", "finally_image"}
    /\ Fault
    /\ IF pc \in InTry
       THEN Raise("KeyboardInterrupt")
       ELSE exc' = "KeyboardInterrupt" /\ pc' = "raised"
    /\ ops' = Append(ops, Step("interrupted", 0))
    /\ UNCHANGED <<svars, environment, pairIdx, images, containers, containerEnv, project,
                   runDirs, stream, test_id, usedIds, exec_env, test_output_lines, result,
                   test_result, logged>>

Next ==
    \/ Gate
    \/ Build
    \/ Create
    \/ AgentExec
    \/ AgentStreamStep
    \/ ContainerLogs
    \/ T_Inject
    \/ T_Pre
    \/ T_PreStreamStep
    \/ T_Exec
    \/ T_StreamStep
    \/ T_Cat
    \/ T_Parse
    \/ RemoveContainer
    \/ FinallyImage
    \/ Finish
    \/ Interrupt

Spec == Init /\ [][Next]_vars


(***************************************************************************)
(* semantic_test.py                                                        *)
(***************************************************************************)
\* JSON values of a rubric.json: numbers and strings
Num(n) == [type |-> "num", num |-> n, text |-> ""]
Str(t) == [type |-> "str", num |-> 0, text |-> t]

\* float(v): a number as it is, a numeric string parsed, otherwise ValueError
FloatOk(v) == v.type = "num" \/ v.text = "85"
float(v) == IF v.type = "num" THEN v.num ELSE 85

\* max(a, b) / min(a, b)
max(a, b) == IF b > a THEN b ELSE a
min(a, b) == IF b < a THEN b ELSE a

\* a validator that forgets the upper end of the range
validate_score_lower_only(v) == max(0, v)

\* SemanticTestResult.validate_score: max(0.0, min(100.0, v))
validate_score(v) == max(0, min(100, v))

\* SemanticTestResult(score=score, metadata=rubric_data)
SemanticTestResult(score, metadata) ==
    [none |-> FALSE, score |-> validate_score(score), metadata |-> metadata]

\* variant: rubric_data["score"] is read and the key stays
Pop_keeps_key(d, key) == d

\* rubric_data.pop("score"): the dict that is left
Pop(d, key) == [k \in DOMAIN d \ {key} |-> d[k]]

\* the documents the sub-agent may leave at ./audit_output/rubric.json
RubricObjects ==
    { [score |-> Num(0 - 5), notes |-> Str("N")],
      [score |-> Num(0)],
      [score |-> Num(50), notes |-> Str("N")],
      [score |-> Num(100)],
      [score |-> Num(137), notes |-> Str("N")],
      [score |-> Str("85"), notes |-> Str("N")],
      [score |-> Str("n/a")],
      [notes |-> Str("N")] }
RubricTexts == {JsonText(o) : o \in RubricObjects} \cup {Garbage}

\* the rubric schemas a test script may pass
Rubrics == {{"score", "notes"}, {"notes"}}

\* variant: weights of two audits that add up to more than the whole
Weights_not_normalised == {<<100>>, <<40, 70>>, <<50, 50>>, <<25, 35, 40>>}

\* the weights (in percent) run_test gives its audits: one audit (cpsc_recall_monitor,
\* ipo_tracker), two (git_changelog_generator and product_review_finder 40/60,
\* email_drafting mean, chiptune_generator 35/65, cross_repo_improvement_tool,
\* news_research_tool, pixel_art_generator and linkedin_drafting 30/70), three
\* (energy_forecast_new_england)
Weights == {<<100>>, <<40, 60>>, <<50, 50>>, <<35, 65>>, <<30, 70>>, <<25, 35, 40>>}
TestIds == {1, 2}
Scripts == {[test_id |-> i, weights |-> w] : i \in TestIds,
                                             w \in {x \in Weights : Len(x) <= MaxAudits}}

InitSem ==
    /\ environment = EmptyDict
    /\ HarnessStart
    /\ LoadIdle
    /\ ScriptsIdle
    /\ rubric \in Rubrics
    /\ rubric_file = {}
    /\ sem_pc = "idle"
    /\ sem_result = SemNone
    /\ sem_exc = "none"
    /\ sem_ops = << >>
    /\ audits = 1
    /\ script \in Scripts
    /\ results = << >>
    /\ writes = << >>
    /\ rubric_written = FALSE
    /\ exit_status = Running

SemRaise(e) == sem_exc' = e /\ sem_pc' = "raised"

\* what a turn of the sub-agent (tools Bash and Write, permission acceptEdits)
\* may do to rubric.json: nothing, delete it, or (re)write it
AgentWrites(file) == {file, {}} \cup {{t} : t \in RubricTexts}
\* whether rubric.json has been written in this call, after a turn that found
\* it as before and left it as after: a turn that leaves the content it found
\* may have written that content anew
Wrote(before, after, flag) ==
    IF after = {} THEN {flag}
    ELSE IF after = before THEN {flag, TRUE}
    ELSE {TRUE}

\* variant: the client is opened before the rubric is checked
Sem_Start_opens_first ==
    /\ sem_pc = "idle"
    /\ sem_ops' = Append(sem_ops, "open")
    /\ IF "score" \notin rubric
       THEN SemRaise("ValueError")
       ELSE sem_pc' = "query_audit" /\ UNCHANGED sem_exc
    /\ UNCHANGED <<hvars, rvars, rubric, rubric_file, sem_result, audits>>

\* semantic_test.py 84-111: check the rubric, render the prompts, open the client
Sem_Start ==
    /\ sem_pc = "idle"
    /\ IF "score" \notin rubric
       THEN /\ SemRaise("ValueError")
            /\ UNCHANGED sem_ops
       ELSE /\ sem_pc' = "query_audit"
            /\ sem_ops' = Append(sem_ops, "open")
            /\ UNCHANGED sem_exc
    /\ UNCHANGED <<hvars, rvars, rubric, rubric_file, sem_result, audits>>

\* semantic_test.py 113 / 118: await client.query(prompt)
Sem_Query ==
    /\ sem_pc \in {"query_audit", "query_generate"}
    /\ \/ /\ sem_pc' = IF sem_pc = "query_audit" THEN "receive_audit" ELSE "receive_generate"
          /\ sem_ops' = Append(sem_ops, sem_pc)
          /\ UNCHANGED sem_exc
       \/ /\ SemRaise("SDKError")
          /\ sem_ops' = Append(sem_ops, "close")
    /\ UNCHANGED <<hvars, rvars, rubric, rubric_file, sem_result, audits>>

\* variant: the block is left after the first turn
Sem_Receive_one_turn ==
    /\ sem_pc \in {"receive_audit", "receive_generate"}
    /\ rubric_file' \in AgentWrites(rubric_file)
    /\ rubric_written' \in Wrote(rubric_file, rubric_file', rubric_written)
    /\ sem_pc' = "collect"
    /\ sem_ops' = sem_ops \o <<sem_pc, "close">>
    /\ UNCHANGED <<hvars, script, results, writes, exit_status, rubric, sem_result,
                   sem_exc, audits>>

\* semantic_test.py 114-115 / 119-120: the response is received to its end; the
\* sub-agent has used its tools meanwhile.  After the second turn the
\* "async with" block is left and the client is closed.
Sem_Receive ==
    /\ sem_pc \in {"receive_audit", "receive_generate"}
    /\ rubric_file' \in AgentWrites(rubric_file)
    /\ rubric_written' \in Wrote(rubric_file, rubric_file', rubric_written)
    /\ \/ /\ sem_pc' = IF sem_pc = "receive_audit" THEN "query_generate" ELSE "collect"
          /\ sem_ops' = IF sem_pc = "receive_audit"
                        THEN Append(sem_ops, sem_pc)
                        ELSE sem_ops \o <<sem_pc, "close">>
          /\ UNCHANGED sem_exc
       \/ /\ SemRaise("SDKError")
          /\ sem_ops' = Append(sem_ops, "close")
    /\ UNCHANGED <<hvars, script, results, writes, exit_status, rubric, sem_result, audits>>

\* variant: a missing rubric.json gives a default result
Sem_Collect_default_on_missing ==
    /\ sem_pc = "collect"
    /\ sem_result' = SemanticTestResult(0, EmptyDict)
    /\ sem_pc' = "returned"
    /\ UNCHANGED <<hvars, rvars, rubric, rubric_file, sem_exc, sem_ops, audits>>

\* semantic_test.py 122-129: read rubric.json, pop the score, build the result
Sem_Collect ==
    /\ sem_pc = "collect"
    /\ IF rubric_file = {}
       THEN /\ SemRaise("FileNotFoundError")
            /\ UNCHANGED <<sem_result, sem_ops>>
       ELSE LET text == CHOOSE t \in rubric_file : TRUE
                rubric_data == json_loads(text)
            IN  /\ sem_ops' = Append(sem_ops, "read")
                /\ IF ~text.parses
                   THEN SemRaise("JSONDecodeError") /\ UNCHANGED sem_result
                   ELSE IF "score" \notin DOMAIN rubric_data
                   THEN SemRaise("KeyError") /\ UNCHANGED sem_result
                   ELSE IF ~FloatOk(rubric_data.score)
                   THEN SemRaise("ValueError") /\ UNCHANGED sem_result
                   ELSE /\ sem_result' = SemanticTestResult(float(rubric_data.score),
                                                            Pop(rubric_data, "score"))
                        /\ sem_pc' = "returned"
                        /\ UNCHANGED sem_exc
    /\ UNCHANGED <<hvars, rvars, rubric, rubric_file, audits>>

\* data/tasks/git_changelog_generator/test.py 116-129: result_1 is bound and
\* run_test calls semantic_test again on the same working_dir
Sem_Call ==
    /\ sem_pc = "returned"
    /\ exit_status = Running
    /\ audits < Len(script.weights)
    /\ audits' = audits + 1
    /\ results' = Append(results, sem_result.score)
    /\ rubric' \in Rubrics
    /\ sem_pc' = "idle"
    /\ sem_result' = SemNone
    /\ sem_ops' = << >>
    /\ rubric_written' = FALSE
    /\ UNCHANGED <<hvars, rubric_file, sem_exc, script, writes, exit_status>>

\* final_score = result_1.score * 0.40 + result_2.score * 0.60, in hundredths
RECURSIVE final_score(_, _)
final_score(scores, weights) ==
    IF scores = << >> THEN 0
    ELSE Head(scores) * Head(weights) + final_score(Tail(scores), Tail(weights))

\* write_test_result(output_dir, test_id, score, metadata): the scorecard file
write_test_result(id, score, metadata) ==
    [path |-> result_file_path(id),
     content |-> JsonText([score |-> score, metadata |-> metadata])]

\* data/tasks/git_changelog_generator/test.py 131-152: every audit has
\* returned; combine the scores, write the scorecard, return 0
Run_Write ==
    /\ sem_pc = "returned"
    /\ exit_status = Running
    /\ audits = Len(script.weights)
    /\ LET all == Append(results, sem_result.score)
           score == final_score(all, script.weights)
           metadata == [instructions |-> "I", scores |-> all, final_score |-> score]
       IN  /\ results' = all
           /\ writes' = Append(writes, write_test_result(script.test_id, score, metadata))
    /\ exit_status' = Returned(0)
    /\ UNCHANGED <<hvars, rubric, rubric_file, sem_pc, sem_result, sem_exc, sem_ops,
                   audits, script, rubric_written>>

\* variant: the exception leaves run_test
Run_Except_reraises ==
    /\ sem_pc = "raised"
    /\ exit_status = Running
    /\ exit_status' = Returned(1)
    /\ UNCHANGED <<hvars, rubric, rubric_file, sem_pc, sem_result, sem_exc, sem_ops,
                   audits, script, results, writes, rubric_written>>

\* data/tasks/git_changelog_generator/test.py 154-161: except Exception as e
Run_Except ==
    /\ sem_pc = "raised"
    /\ exit_status = Running
    /\ LET metadata == [instructions |-> "I", error |-> sem_exc]
       IN  writes' = Append(writes, write_test_result(script.test_id, 0, metadata))
    /\ exit_status' = Returned(0)
    /\ UNCHANGED <<hvars, rubric, rubric_file, sem_pc, sem_result, sem_exc, sem_ops,
                   audits, script, results, rubric_written>>

NextSem ==
    \/ Sem_Call
    \/ Run_Write
    \/ Run_Except
    \/ Sem_Start
    \/ Sem_Query
    \/ Sem_Receive
    \/ Sem_Collect

SpecSem == InitSem /\ [][NextSem]_vars


(***************************************************************************)
(* Command line, Harness.__init__, _load_agents, _load_tasks               *)
(***************************************************************************)
\* the names the entries of agents_dir and of tasks_dir may have
AgentNames == {<<1>>, <<1, 2>>}
TaskNames == {<<3>>, <<2, 3>>}

\* what an entry of agents_dir is: a plain file; a directory with the three
\* files, agent.yaml declaring required_env_vars or being empty; a directory
\* that lacks one of the three
AgentKinds == {"file", "complete", "empty_yaml", "no_install", "no_template", "no_yaml"}
\* what an entry of tasks_dir is: a plain file; a directory lacking test.py or
\* task.yaml; one whose task.yaml has no task_info, an empty one, one without
\* difficulty, one without non_deterministic_evals; a complete one, without
\* and with test_commands.sh
TaskKinds == {"file", "no_test", "no_yaml", "no_task_info", "empty_task_info",
              "no_difficulty", "no_nde", "full", "full_commands"}

\* the kinds of the directories that are loaded.  At most one of agents_dir and
\* tasks_dir holds entries of another kind
RegularAgentKinds == {"complete"}
RegularTaskKinds == {"full", "full_commands"}

\* a directory that does not exist
Missing_dir == [exists |-> FALSE, entries |-> << >>]
Listings(names, kinds) ==
    UNION {{[exists |-> TRUE, entries |-> f] : f \in [present -> kinds]} :
           present \in SUBSET names}

\* the environment the command line constructs the harness with (its two keys),
\* a caller of the library being free to pass none
CliEnvironment == [v \in {"X", "Y"} |-> EnvValue(v)]

\* datetime.now(UTC).strftime("%Y-%m-%d_%H-%M-%S"): the second the tick is in
TicksPerSecond == 2
strftime(t) == t \div TicksPerSecond

InitLoad ==
    /\ environment \in {CliEnvironment, EmptyDict}
    /\ HarnessStart
    /\ SemIdle
    /\ ScriptsIdle
    /\ \/ /\ agents_dir \in Listings(AgentNames, AgentKinds) \cup {Missing_dir}
          /\ tasks_dir \in Listings(TaskNames, RegularTaskKinds)
       \/ /\ agents_dir \in Listings(AgentNames, RegularAgentKinds)
          /\ tasks_dir \in Listings(TaskNames, TaskKinds) \cup {Missing_dir}
    /\ load_pc = "new"
    /\ todo = {}
    /\ loaded_agents = << >>
    /\ loaded_tasks = << >>
    /\ load_logged = {}
    /\ load_exc = "none"
    /\ clock = 0
    /\ invocation = 0
    /\ runs_dir = << >>
    /\ next_pair = 1
    /\ made = << >>

\* run_benchmarks.py 34-45 and harness.py 37-47: the command line always passes
\* --runs-dir (its default is the runs root itself); a caller that passes no
\* runs_dir gets the runs root extended by the time stamp.  runs_dir is the
\* path below the runs root: empty, or the one time-stamp directory
L_Construct ==
    /\ load_pc = "new"
    /\ invocation < MaxInvocations
    /\ invocation' = invocation + 1
    /\ \E now \in clock..MaxClock :
          /\ clock' = now
          /\ \E cli \in BOOLEAN :
                runs_dir' = IF cli THEN << >> ELSE <<strftime(now)>>
    /\ loaded_agents' = << >>
    /\ loaded_tasks' = << >>
    /\ load_logged' = {}
    /\ next_pair' = 1
    /\ load_pc' = "load_agents"
    /\ UNCHANGED <<nlvars, agents_dir, tasks_dir, todo, load_exc, made>>

\* harness.py 50-53
L_AgentsBegin ==
    /\ load_pc = "load_agents"
    /\ IF agents_dir.exists
       THEN /\ todo' = DOMAIN agents_dir.entries
            /\ load_pc' = "agent_entry"
            /\ UNCHANGED load_logged
       ELSE /\ load_logged' = load_logged \cup {[warning |-> "Agents directory does not exist", dir |-> << >>]}
            /\ load_pc' = "load_tasks"
            /\ UNCHANGED todo
    /\ UNCHANGED <<nlvars, agents_dir, tasks_dir, loaded_agents, loaded_tasks, load_exc,
                   clock, invocation, runs_dir, next_pair, made>>

\* variant: an agent directory is loaded whether or not it has a command
\* template
L_AgentEntry_without_template ==
    /\ load_pc = "agent_entry"
    /\ IF todo = {}
       THEN /\ load_pc' = "load_tasks"
            /\ UNCHANGED <<todo, loaded_agents>>
       ELSE \E agent_dir \in todo :
              /\ todo' = todo \ {agent_dir}
              /\ loaded_agents' =
                    IF agents_dir.entries[agent_dir] \in {"complete", "empty_yaml", "no_template"}
                    THEN Append(loaded_agents,
                                [name |-> agent_dir,
                                 required_env_vars |->
                                    IF agents_dir.entries[agent_dir] = "complete"
                                    THEN <<"X">> ELSE << >>])
                    ELSE loaded_agents
              /\ UNCHANGED load_pc
    /\ UNCHANGED <<nlvars, agents_dir, tasks_dir, loaded_tasks, load_logged, load_exc,
                   clock, invocation, runs_dir, next_pair, made>>

\* harness.py 55-78: one entry of iterdir(), in whatever order it yields them
L_AgentEntry ==
    /\ load_pc = "agent_entry"
    /\ IF todo = {}
       THEN /\ load_pc' = "load_tasks"
            /\ UNCHANGED <<todo, loaded_agents>>
       ELSE \E agent_dir \in todo :
              /\ todo' = todo \ {agent_dir}
              /\ loaded_agents' =
                    IF agents_dir.entries[agent_dir] \in {"complete", "empty_yaml"}
                    THEN Append(loaded_agents,
                                [name |-> agent_dir,
                                 required_env_vars |->
                                    IF agents_dir.entries[agent_dir] = "complete"
                                    THEN <<"X">> ELSE << >>])
                    ELSE loaded_agents
              /\ UNCHANGED load_pc
    /\ UNCHANGED <<nlvars, agents_dir, tasks_dir, loaded_tasks, load_logged, load_exc,
                   clock, invocation, runs_dir, next_pair, made>>

\* harness.py 81-84
L_TasksBegin ==
    /\ load_pc = "load_tasks"
    /\ IF tasks_dir.exists
       THEN /\ todo' = DOMAIN tasks_dir.entries
            /\ load_pc' = "task_entry"
            /\ UNCHANGED load_logged
       ELSE /\ load_logged' = load_logged \cup {[warning |-> "Tasks directory does not exist", dir |-> << >>]}
            /\ load_pc' = "pairs"
            /\ UNCHANGED todo
    /\ UNCHANGED <<nlvars, agents_dir, tasks_dir, loaded_agents, loaded_tasks, load_exc,
                   clock, invocation, runs_dir, next_pair, made>>

\* harness.py 86-124: one entry of iterdir()
L_TaskEntry ==
    /\ load_pc = "task_entry"
    /\ IF todo = {}
       THEN /\ load_pc' = "pairs"
            /\ UNCHANGED <<todo, loaded_tasks, load_logged, load_exc>>
       ELSE \E task_dir \in todo :
              LET kind == tasks_dir.entries[task_dir]
              IN  /\ todo' = todo \ {task_dir}
                  /\ IF kind \in {"file", "no_test", "no_yaml"}
                     THEN UNCHANGED <<loaded_tasks, load_logged, load_exc, load_pc>>
                     ELSE IF kind \in {"no_task_info", "empty_task_info"}
                     THEN /\ load_logged' = load_logged \cup {[warning |-> "Skipping task", dir |-> task_dir]}
                          /\ UNCHANGED <<loaded_tasks, load_exc, load_pc>>
                     ELSE IF kind \in {"no_difficulty", "no_nde"}
                     THEN /\ load_exc' = "KeyError"
                          /\ load_pc' = "raised"
                          /\ UNCHANGED <<loaded_tasks, load_logged>>
                     ELSE /\ loaded_tasks' =
                                Append(loaded_tasks,
                                       [name |-> task_dir, required_env_vars |-> << >>,
                                        test_commands_script |-> kind = "full_commands"])
                          /\ UNCHANGED <<load_logged, load_exc, load_pc>>
    /\ UNCHANGED <<nlvars, agents_dir, tasks_dir, loaded_agents, clock, invocation,
                   runs_dir, next_pair, made>>

\* the pair the nested loops of run() are at
LoadedPairs == Len(loaded_agents) * Len(loaded_tasks)
LoadedAgentOf(p) == loaded_agents[((p - 1) \div Len(loaded_tasks)) + 1]
LoadedTaskOf(p) == loaded_tasks[((p - 1) % Len(loaded_tasks)) + 1]

\* harness.py 281-322 and 380-381: the next pair of the nested loops is skipped
\* by the gate or, its image built and its container started, makes its
\* run_dir; after the last pair run() returns
L_Pair ==
    /\ load_pc = "pairs"
    /\ IF next_pair > LoadedPairs
       THEN /\ load_pc' = "new"
            /\ UNCHANGED <<made, next_pair>>
       ELSE IF ~_validate_required_env_vars(LoadedAgentOf(next_pair),
                                            LoadedTaskOf(next_pair), environment)[1]
       THEN /\ next_pair' = next_pair + 1
            /\ UNCHANGED <<made, load_pc>>
       ELSE /\ made' = Append(made,
                              [invocation |-> invocation,
                               agent |-> LoadedAgentOf(next_pair).name,
                               task |-> LoadedTaskOf(next_pair).name,
                               run_dir |-> [parent |-> runs_dir,
                                            name |-> run_dir_of(LoadedAgentOf(next_pair),
                                                                LoadedTaskOf(next_pair))]])
            /\ next_pair' = next_pair + 1
            /\ UNCHANGED load_pc
    /\ UNCHANGED <<nlvars, agents_dir, tasks_dir, todo, loaded_agents, loaded_tasks,
                   load_logged, load_exc, clock, invocation, runs_dir>>

NextLoad ==
    \/ L_Construct
    \/ L_AgentsBegin
    \/ L_AgentEntry
    \/ L_TasksBegin
    \/ L_TaskEntry
    \/ L_Pair

SpecLoad == InitLoad /\ [][NextLoad]_vars


(***************************************************************************)
(* data/tasks/arxiv_conclusion_extraction/test.py and                      *)
(* data/tasks/gdpval_extraction/test.py                                    *)
(***************************************************************************)
\* min(insertions, deletions, substitutions)
min3(a, b, c) == min(a, min(b, c))

\* the inner loop "for j, c2 in enumerate(s2)": current_row, extended from
\* position j on (j counts from 1 here, from 0 in the code)
RECURSIVE InnerLoop(_, _, _, _, _)
InnerLoop(c1, s2, previous_row, current_row, j) ==
    IF Len(current_row) > Len(s2) THEN current_row
    ELSE LET insertions == previous_row[j + 1] + 1
             deletions == current_row[j] + 1
             substitutions == previous_row[j] + (IF c1 # s2[j] THEN 1 ELSE 0)
         IN  InnerLoop(c1, s2, previous_row,
                       Append(current_row, min3(insertions, deletions, substitutions)), j + 1)

\* the outer loop "for i, c1 in enumerate(s1)": previous_row after the first i
\* rows; current_row starts as [i + 1] with i counted from 0
RECURSIVE OuterLoop(_, _, _)
OuterLoop(s1, s2, i) ==
    IF i = 0 THEN [j \in 1..(Len(s2) + 1) |-> j - 1]
    ELSE InnerLoop(s1[i], s2, OuterLoop(s1, s2, i - 1), <<i>>, 1)

\* variant: a substitution costs as much as a deletion followed by an insertion
RECURSIVE levenshtein_distance_no_substitution(_, _)
levenshtein_distance_no_substitution(s1, s2) ==
    IF s1 = << >> THEN Len(s2)
    ELSE IF s2 = << >> THEN Len(s1)
    ELSE IF Head(s1) = Head(s2) THEN levenshtein_distance_no_substitution(Tail(s1), Tail(s2))
    ELSE 1 + min(levenshtein_distance_no_substitution(Tail(s1), s2),
                 levenshtein_distance_no_substitution(s1, Tail(s2)))

\* levenshtein_distance(s1, s2), the same function in both scripts
RECURSIVE levenshtein_distance(_, _)
levenshtein_distance(s1, s2) ==
    IF Len(s1) < Len(s2) THEN levenshtein_distance(s2, s1)
    ELSE IF Len(s2) = 0 THEN Len(s1)
    ELSE LET previous_row == OuterLoop(s1, s2, Len(s1))
         IN  previous_row[Len(previous_row)]

\* the strings levenshtein_distance is tried on: all strings of two letters up
\* to MaxLen
Alphabet == {1, 2}
Strings == UNION {[1..n -> Alphabet] : n \in 0..MaxLen}
\* the string of n letters c
Rep(c, n) == [i \in 1..n |-> c]

\* GROUNDTRUTH_CONCLUSION, scaled from its 785 characters to a length that
\* still lies beyond the distance at which the score reaches 0
GroundtruthLen == 108
GROUNDTRUTH_CONCLUSION == Rep(1, GroundtruthLen)
\* what the agent may have left in Conclusion.txt: the ground truth, the ground
\* truth with characters missing at the end, with one more, with its first
\* characters replaced
ConclusionTexts ==
    {Rep(1, n) : n \in {0, 2, 3, 4, 102, 103, 107, 108, 109}}
    \cup {[i \in 1..GroundtruthLen |-> IF i <= 6 THEN 2 ELSE 1]}
\* Conclusion.txt: absent, something read_text() fails on (a directory, bytes
\* that are no UTF-8), or a text
Conclusions ==
    {NoFile, [exists |-> TRUE, readable |-> FALSE, text |-> << >>]}
    \cup {[exists |-> TRUE, readable |-> TRUE, text |-> t] : t \in ConclusionTexts}

\* LEVENSHTEIN_BUFFER and the buffer of arxiv's score
LEVENSHTEIN_BUFFER == 5
\* expected_rows
ExpectedRows == 220
\* base_score
BaseScore == 50
\* GROUNDTRUTH_SPOT_CHECKS: three prompts, scaled from their 1088, 1289 and
\* 1982 characters to lengths that still lie beyond LEVENSHTEIN_BUFFER
GROUNDTRUTH_SPOT_CHECKS == {Rep(1, 6), Rep(2, 7), Rep(3, 8)}
\* the distinct prompts among the rows of the CSV: all ground truths, ground
\* truths cut down to the edge of the buffer and beyond it, one missing
PromptSets ==
    { GROUNDTRUTH_SPOT_CHECKS,
      {Rep(1, 1), Rep(2, 2), Rep(3, 3)},
      {<< >>, Rep(2, 7), Rep(3, 8)},
      {Rep(1, 6), Rep(2, 1), Rep(3, 8)},
      {Rep(1, 6), Rep(2, 7)} }

\* what the verifier does when it is run: it raises, yields nothing, yields
\* something that is no metrics object, or yields metrics whose
\* closed_domain_supported is the score
VerifierOutcomes ==
    {[kind |-> k, score |-> 0] : k \in {"raises", "no_results", "no_metrics"}}
    \cup {[kind |-> "metrics", score |-> v] : v \in {0, 50, 100}}
\* /project as the agent left it: gdpval_prompts.csv (there or not, readable as
\* CSV or not, with a prompt column or not, its number of rows, the prompts in
\* them) and gdpval_summary.txt (absent, something read_text() fails on, a text)
Workdirs ==
    [csv_exists : BOOLEAN, csv_loads : BOOLEAN, has_prompt : BOOLEAN,
     nrows : {ExpectedRows - 1, ExpectedRows},
     prompts : PromptSets,
     summary : {"missing", "unreadable", "text"},
     verifier : VerifierOutcomes]

InitTests ==
    /\ environment = EmptyDict
    /\ HarnessStart
    /\ SemIdle
    /\ LoadIdle
    /\ py_pc = "start"
    /\ py_ops = << >>
    /\ py_writes = << >>
    /\ py_exit = Running
    /\ lev_ret = Running
    /\ lev_i = 0
    /\ lev_previous_row = << >>
    /\ \/ /\ prog = "levenshtein"
          /\ lev_args \in Strings \X Strings
          /\ conclusion = NoFile
          /\ workdir = NoWorkdir
       \/ /\ prog = "arxiv"
          /\ lev_args = << << >>, << >> >>
          /\ conclusion \in Conclusions
          /\ workdir = NoWorkdir
       \/ /\ prog = "gdpval"
          /\ lev_args = << << >>, << >> >>
          /\ conclusion = NoFile
          /\ workdir \in Workdirs

\* a call of levenshtein_distance(s1, s2)
Lev_Call ==
    /\ prog = "levenshtein"
    /\ py_pc = "start"
    /\ lev_ret' = Returned(levenshtein_distance(lev_args[1], lev_args[2]))
    /\ py_pc' = "returned"
    /\ UNCHANGED <<npvars, pinputs, lev_args, lev_i, lev_previous_row, py_ops, py_writes, py_exit>>

\* the scorecard file: json.dumps({"score": score, "metadata": metadata})
Scorecard(score, metadata) == [score |-> score, metadata |-> metadata]
\* main() returns v and sys.exit(v) ends the process
Exit(v) == py_exit' = Returned(v) /\ py_pc' = "returned"
\* an exception leaves main(): no scorecard, the interpreter exits with 1
Uncaught == py_exit' = Returned(1) /\ py_pc' = "raised"

\* arxiv test.py 41-55: Conclusion.txt does not exist
A_Exists ==
    /\ prog = "arxiv"
    /\ py_pc = "start"
    /\ py_ops' = Append(py_ops, "exists")
    /\ IF ~conclusion.exists
       THEN /\ py_writes' = Append(py_writes,
                                   Scorecard(0, [groundtruth |-> GROUNDTRUTH_CONCLUSION,
                                                 llm_output |-> << >>]))
            /\ Exit(1)
       ELSE /\ py_pc' = "read"
            /\ UNCHANGED <<py_writes, py_exit>>
    /\ UNCHANGED <<npvars, pinputs, levvars>>

\* arxiv test.py 57-58: read the file and enter levenshtein_distance, which
\* swaps its arguments when the first is the shorter and returns at once when
\* the shorter is empty
A_Read ==
    /\ prog = "arxiv"
    /\ py_pc = "read"
    /\ py_ops' = Append(py_ops, "read")
    /\ IF ~conclusion.readable
       THEN Uncaught /\ UNCHANGED levvars
       ELSE LET llm_output == conclusion.text
                s1 == IF Len(GROUNDTRUTH_CONCLUSION) < Len(llm_output)
                      THEN llm_output ELSE GROUNDTRUTH_CONCLUSION
                s2 == IF Len(GROUNDTRUTH_CONCLUSION) < Len(llm_output)
                      THEN GROUNDTRUTH_CONCLUSION ELSE llm_output
            IN  /\ lev_args' = <<s1, s2>>
                /\ IF Len(s2) = 0
                   THEN /\ lev_ret' = Returned(Len(s1))
                        /\ py_pc' = "score"
                        /\ UNCHANGED <<lev_i, lev_previous_row>>
                   ELSE /\ lev_previous_row' = OuterLoop(s1, s2, 0)
                        /\ lev_i' = 1
                        /\ py_pc' = "rows"
                        /\ UNCHANGED lev_ret
                /\ UNCHANGED py_exit
    /\ UNCHANGED <<npvars, pinputs, py_writes>>

\* one round of the outer loop of levenshtein_distance inside main(); after the
\* last one the function returns previous_row[-1]
A_Row ==
    /\ prog = "arxiv"
    /\ py_pc = "rows"
    /\ LET s1 == lev_args[1]
           s2 == lev_args[2]
           current_row == InnerLoop(s1[lev_i], s2, lev_previous_row, <<lev_i>>, 1)
       IN  /\ lev_previous_row' = current_row
           /\ lev_i' = lev_i + 1
           /\ IF lev_i = Len(s1)
              THEN lev_ret' = Returned(current_row[Len(current_row)]) /\ py_pc' = "score"
              ELSE UNCHANGED <<lev_ret, py_pc>>
    /\ UNCHANGED <<npvars, pinputs, lev_args, py_ops, py_writes, py_exit>>

\* arxiv test.py 60-81: score, write the scorecard, return
A_Score ==
    /\ prog = "arxiv"
    /\ py_pc = "score"
    /\ py_ops' = Append(py_ops, "score")
    /\ LET edit_distance == lev_ret.value
           score == max(0, 100 - max(0, edit_distance - LEVENSHTEIN_BUFFER))
       IN  /\ py_writes' = Append(py_writes,
                                  Scorecard(score, [edit_distance |-> edit_distance,
                                                    groundtruth |-> GROUNDTRUTH_CONCLUSION,
                                                    llm_output |-> conclusion.text]))
           /\ Exit(IF edit_distance = 0 THEN 0 ELSE 1)
    /\ UNCHANGED <<npvars, pinputs, levvars>>

\* write_result(test_id, 0, ...) and return 1
Fail(metadata) ==
    /\ py_writes' = Append(py_writes, Scorecard(0, metadata))
    /\ Exit(1)
\* one prerequisite check of main(): at `at', it passes on to `next' or fails
Check(at, passed, metadata, next) ==
    /\ py_pc = at
    /\ py_ops' = Append(py_ops, at)
    /\ IF passed
       THEN py_pc' = next /\ UNCHANGED <<py_writes, py_exit>>
       ELSE Fail(metadata)
    /\ UNCHANGED <<npvars, pinputs, levvars>>

\* check_row_count
RowCountOk == workdir.nrows = ExpectedRows
\* check_spot_checks: the closest row to each expected prompt lies within the buffer
MinDistance(expected_prompt) ==
    LET distances == {levenshtein_distance(expected_prompt, csv_prompt) :
                          csv_prompt \in workdir.prompts}
    IN  CHOOSE d \in distances : \A e \in distances : d <= e
check_spot_checks ==
    \A expected_prompt \in GROUNDTRUTH_SPOT_CHECKS :
        MinDistance(expected_prompt) <= LEVENSHTEIN_BUFFER

\* Check 1
G_CsvExists ==
    /\ prog = "gdpval"
    /\ Check("start", workdir.csv_exists, [error |-> "gdpval_prompts.csv not found"], "load_csv")
\* Check 2
G_LoadCsv ==
    /\ prog = "gdpval"
    /\ Check("load_csv", workdir.csv_loads, [error |-> "Could not read CSV"], "prompt_column")
\* Check 3
G_PromptColumn ==
    /\ prog = "gdpval"
    /\ Check("prompt_column", workdir.has_prompt,
             [error |-> "'prompt' column not found in CSV"], "row_count")
\* variant: a wrong number of rows is reported and the checks go on
G_RowCount_goes_on ==
    /\ prog = "gdpval"
    /\ py_pc = "row_count"
    /\ py_ops' = Append(py_ops, "row_count")
    /\ py_pc' = "spot_checks"
    /\ IF RowCountOk
       THEN UNCHANGED py_writes
       ELSE py_writes' = Append(py_writes,
                                Scorecard(0, [error |-> "Expected 220 rows",
                                              actual_rows |-> workdir.nrows]))
    /\ UNCHANGED <<npvars, pinputs, levvars, py_exit>>
\* Check 4
G_RowCount ==
    /\ prog = "gdpval"
    /\ Check("row_count", RowCountOk,
             [error |-> "Expected 220 rows", actual_rows |-> workdir.nrows], "spot_checks")
\* Check 5
G_SpotChecks ==
    /\ prog = "gdpval"
    /\ Check("spot_checks", check_spot_checks,
             [all_spot_checks_passed |-> FALSE], "summary_exists")
\* Check 6
G_SummaryExists ==
    /\ prog = "gdpval"
    /\ Check("summary_exists", workdir.summary # "missing",
             [error |-> "gdpval_summary.txt not found"], "verify")

\* run_claim_verification's return: the metrics' closed_domain_supported, 0.0
\* for no results, no metrics and an exception of the verifier's run
verification_score ==
    IF workdir.verifier.kind = "metrics" THEN workdir.verifier.score ELSE 0
\* final_score = base_score + (verification_score / 100.0) * 50.0; the scores
\* drawn are even, so that the points are a whole number
gdpval_final_score == BaseScore + (verification_score * 50) \div 100

\* main() 278-293 with run_claim_verification: summary_file.read_text() stands
\* before the try, the verifier's run inside it
G_Verify ==
    /\ prog = "gdpval"
    /\ py_pc = "verify"
    /\ py_ops' = Append(py_ops, "verify")
    /\ IF workdir.summary = "unreadable"
       THEN Uncaught /\ UNCHANGED py_writes
       ELSE /\ py_writes' = Append(py_writes,
                                   Scorecard(gdpval_final_score,
                                             [claim_verification |-> workdir.verifier.kind]))
            /\ Exit(IF gdpval_final_score = 100 THEN 0 ELSE 1)
    /\ UNCHANGED <<npvars, pinputs, levvars>>

NextTests ==
    \/ Lev_Call
    \/ A_Exists
    \/ A_Read
    \/ A_Row
    \/ A_Score
    \/ G_CsvExists
    \/ G_LoadCsv
    \/ G_PromptColumn
    \/ G_RowCount
    \/ G_SpotChecks
    \/ G_SummaryExists
    \/ G_Verify

SpecTests == InitTests /\ [][NextTests]_vars


(***************************************************************************)
(* Properties                                                              *)
(***************************************************************************)
Pairs == 1..NumPairs
\* the pair has been left: the loops moved on, or run() ended inside it
Done(p) == p < pairIdx \/ (p = pairIdx /\ pc = "raised")
Created(p) == p \in DOMAIN containerEnv
TagOf(p) == image_tag(AgentOf(p), TaskOf(p))
DirOf(p) == run_dir_of(AgentOf(p), TaskOf(p))
Required(p) == Range(AgentOf(p).required_env_vars) \cup Range(TaskOf(p).required_env_vars)
Missing(p) == \E v \in Required(p) : v \notin DOMAIN environment
Pos(p, op) == {i \in DOMAIN ops : ops[i].pair = p /\ ops[i].op = op}
Did(p, op) == Pos(p, op) # {}
Warned(p, what) == <<"warning", p, what>> \in logged
InRange(v) == 0 <= v /\ v <= 100
RemovalOps == {"rm_container", "rm_container_failed", "rm_image", "rm_image_failed"}
DockerOps == RemovalOps \cup {"build", "build_failed", "create", "create_failed",
                              "exec_agent", "exec_agent_failed", "put_archive",
                              "exec_pre", "exec_test", "cat"}
\* all bytes of a stream, as the log file receives them
RECURSIVE AllBytes(_)
AllBytes(chunks) ==
    IF chunks = << >> THEN << >>
    ELSE (IF Head(chunks).tuple THEN Head(chunks).stdout \o Head(chunks).stderr
          ELSE Head(chunks).raw) \o AllBytes(Tail(chunks))

\* C1: for every pair in which a container was created, once the pair has been
\* left (normally, by an exception of the agent exec or its streaming, or by an
\* interruption) its container and its image no longer exist.
C1_ContainerAndImageGone ==
    \A p \in Pairs : (Done(p) /\ Created(p)) => (p \notin containers /\ TagOf(p) \notin images)

\* C2: a failure inside a pair (build rejected, container not started, exec or
\* stream error, unparseable scorecard) never leaves run() as an exception: run()
\* ends only by returning, after the loops have visited every pair.
C2_FailureConfined ==
    /\ pc = "raised" => exc = "KeyboardInterrupt"
    /\ pc = "returned" => pairIdx = NumPairs + 1

\* C3: once a pair whose Test Runner came to read the scorecard has been left,
\* its run_dir holds test_results.json with a score in [0,100]; when no
\* scorecard file was found, it holds score 0 and error "No results file found".
C3_ResultsFileWritten ==
    \A p \in Pairs : (Done(p) /\ Did(p, "cat") /\ Did(p, "rm_container")) =>
        /\ DirOf(p) \in DOMAIN runDirs
        /\ "test_results.json" \in DOMAIN runDirs[DirOf(p)]
        /\ LET file == runDirs[DirOf(p)]["test_results.json"]
           IN  /\ file.parses
               /\ "score" \in DOMAIN json_loads(file)
               /\ InRange(json_loads(file).score)
               /\ Warned(p, "Could not read results file") =>
                    json_loads(file) =
                        [score |-> 0, metadata |-> [error |-> "No results file found"]]

\* C4: a pair with a required variable missing from the harness environment is
\* left by the env gate alone: no Docker operation is ever made for it, nothing
\* of it exists in the daemon or under runs_dir, and the loops have moved on.
C4_EnvGateBlocks ==
    \A p \in Pairs : Missing(p) =>
        /\ \A i \in DOMAIN ops : ops[i].pair = p => ops[i].op \notin DockerOps
        /\ ~Created(p) /\ p \notin containers /\ TagOf(p) \notin images
        /\ DirOf(p) \notin DOMAIN runDirs
        /\ Did(p, "env_blocked") => pairIdx > p
        /\ p < pairIdx => Did(p, "env_blocked")
C4_Witness ==
    \E p \in Pairs : Missing(p) /\ Did(p, "env_blocked") /\ pairIdx > p /\ pc = "create"

\* C5: the environment a container is created with has exactly the keys
\* agent.required_env_vars union task.required_env_vars, each with the value it
\* has in the harness environment.
C5_ContainerEnvExact ==
    \A p \in Pairs : Created(p) =>
        /\ DOMAIN containerEnv[p] = Required(p)
        /\ \A k \in DOMAIN containerEnv[p] :
              k \in DOMAIN environment /\ containerEnv[p][k] = environment[k]
C5_Witness ==
    \E p \in Pairs : Created(p) /\ Required(p) # {} /\ DOMAIN environment \ Required(p) # {}

\* C6 as claimed: when the image build of a pair starts, no container and no
\* image of an earlier pair exists.
C6_NoLeftovers ==
    pc = "build" => \A q \in Pairs : q < pairIdx => (q \notin containers /\ TagOf(q) \notin images)

\* C6 as amended: when the image build of a pair starts, the removal of the
\* container and of the image of every earlier pair has been attempted, and
\* none of them exists except those whose removal the daemon rejected.
C6_NoLeftoversUnlessRemovalFailed ==
    pc = "build" => \A q \in Pairs : q < pairIdx =>
        /\ Created(q) => (Did(q, "rm_container") \/ Did(q, "rm_container_failed"))
        /\ Did(q, "build") => (Did(q, "rm_image") \/ Did(q, "rm_image_failed"))
        /\ q \in containers => Did(q, "rm_container_failed")
        /\ TagOf(q) \in images => Did(q, "rm_image_failed")
C6_Witness ==
    /\ pc = "build"
    /\ \E q \in Pairs : q < pairIdx /\ Created(q) /\ Did(q, "rm_container") /\ Did(q, "rm_image")

\* the steps that must have completed in the pair before a step is taken
Prerequisites(op) ==
    IF op = "create" THEN {"build"}
    ELSE IF op = "exec_agent" THEN {"create"}
    ELSE IF op = "put_archive" THEN {"create", "agent_done"}
    ELSE IF op = "exec_pre" THEN {"put_archive"}
    ELSE IF op = "exec_test" THEN {"put_archive"}
    ELSE IF op = "cat" THEN {"test_done"}
    ELSE {}

\* the steps that end a pair
TeardownOps == RemovalOps \cup {"interrupted"}
\* step j of the history is in order: its prerequisites precede it in its
\* pair, it follows a removal or an interruption of its pair only if it is one
\* itself, and pairs come in increasing order
StepOrdered(j) ==
    /\ \A a \in Prerequisites(ops[j].op) :
          \E i \in 1..(j - 1) : ops[i].pair = ops[j].pair /\ ops[i].op = a
    /\ (j > 1 /\ ops[j - 1].pair = ops[j].pair /\ ops[j - 1].op \in TeardownOps) =>
          ops[j].op \in TeardownOps
    /\ (j > 1 /\ ops[j - 1].pair # ops[j].pair) => ops[j - 1].pair < ops[j].pair

\* C7: within a pair, the image is built before the container is created, the
\* container is created before anything is executed in or injected into it, the
\* agent exec has completed before the test script is injected, the test exec
\* has completed before the scorecard is read, and nothing but removals
\* follows the first removal.  The history only grows, one step at a time, so
\* the latest step being in order in every state makes every step in order.
C7_StepsOrdered == ops # << >> => StepOrdered(Len(ops))
C7_Witness ==
    \E p \in Pairs : Did(p, "cat") /\ Did(p, "rm_container") /\ Did(p, "rm_image")

\* C8: when the Test Runner has read the scorecard and found it absent or
\* unparseable, it returns score 0 with metadata {error: "No results file
\* found"}, and test_output.log holds the whole test output.
CameFromParse ==
    /\ pc = "rm_container"
    /\ ops # << >>
    /\ ops[Len(ops)].pair = pairIdx
    /\ ops[Len(ops)].op \in {"cat", "ingest"}
C8_FallbackResult ==
    (CameFromParse /\ (result.exit_code # 0 \/ ~result.output.parses)) =>
        /\ ~test_result.none
        /\ test_result.score = 0
        /\ test_result.metadata = [error |-> "No results file found"]
        /\ runDirs[run_dir]["test_output.log"] = AllBytes(TestStream)

\* C9: the test ids of the test executions of one invocation are pairwise
\* different, the scorecard path read embeds the id the test process was given,
\* and the scorecard ingested is the one the current test execution wrote.
C9_FreshTestId ==
    LET execs == {i \in DOMAIN ops : ops[i].op = "exec_test"}
    IN  /\ \A i \in execs : \A j \in execs : i # j => ops[i].arg # ops[j].arg
        /\ \A j \in DOMAIN ops : ops[j].op = "cat" =>
              \E i \in execs : i < j /\ ops[i].pair = ops[j].pair /\ ops[i].arg = ops[j].arg
        /\ \A i \in DOMAIN ops : ops[i].op = "ingest" => ops[i].arg = ops[i].pair
C9_Witness ==
    /\ pairIdx > 1
    /\ Did(pairIdx, "ingest")
    /\ \E f \in project : f.writer = 0 /\ f.content = JsonText(StaleCard)

\* C10: whenever semantic_test returns, the score of its result is the score
\* found in rubric.json clamped to [0,100].
C10_ScoreClamped ==
    sem_pc = "returned" =>
        \E text \in rubric_file :
            LET s == IF text.obj.score.type = "num" THEN text.obj.score.num ELSE 85
            IN  sem_result.score = IF s > 100 THEN 100 ELSE IF s < 0 THEN 0 ELSE s
C10_Witness ==
    /\ sem_pc = "returned"
    /\ \E text \in rubric_file : text.obj.score = Num(137)
    /\ sem_result.score = 100

\* C11: a call whose rubric has no "score" key ends with ValueError and with
\* nothing done: no client opened, no prompt sent, no response received, no
\* rubric file read, no result.
C11_InvalidRubricFailsFirst ==
    ("score" \notin rubric /\ sem_pc # "idle") =>
        /\ sem_pc = "raised"
        /\ sem_exc = "ValueError"
        /\ sem_ops = << >>
        /\ sem_result = SemNone
C11_Witness ==
    /\ "score" \notin rubric
    /\ sem_pc = "raised"
    /\ audits = MaxAudits
    /\ rubric_file # {}

\* the call in progress has completed both turns and closed the client
BothTurnsDone ==
    /\ Len(sem_ops) >= 6
    /\ SubSeq(sem_ops, 1, 6) = <<"open", "query_audit", "receive_audit",
                                 "query_generate", "receive_generate", "close">>

\* C12: once both turns have completed and the existence of rubric.json has
\* been tested, if the file is absent the call has raised FileNotFoundError,
\* has read nothing and has no result.
C12_RubricMissing ==
    (BothTurnsDone /\ sem_pc # "collect" /\ rubric_file = {}) =>
        /\ sem_pc = "raised"
        /\ sem_exc = "FileNotFoundError"
        /\ Len(sem_ops) = 6
        /\ sem_result = SemNone
C12_Witness ==
    /\ BothTurnsDone
    /\ rubric_file = {}
    /\ sem_pc = "raised"
    /\ sem_exc = "FileNotFoundError"

\* C13: whenever semantic_test has returned, the metadata of its result has
\* the keys of the rubric.json object except "score", each with the value it
\* has in the file.
C13_MetadataIsRest ==
    sem_pc = "returned" =>
        \E text \in rubric_file :
            /\ DOMAIN sem_result.metadata = DOMAIN text.obj \ {"score"}
            /\ \A k \in DOMAIN sem_result.metadata : sem_result.metadata[k] = text.obj[k]
C13_Witness ==
    /\ sem_pc = "returned"
    /\ rubric_file = {JsonText([score |-> Num(137), notes |-> Str("N")])}
    /\ sem_result.metadata = [notes |-> Str("N")]

\* the steps of a call that meets no error, in the order of the code
Conversation == <<"open", "query_audit", "receive_audit",
                  "query_generate", "receive_generate", "close", "read">>

\* C14: the steps of a call are an initial part of open, audit prompt, audit
\* response, generate prompt, generate response, close, read, each at most
\* once and none skipped; a call cut short by an error of the client only
\* closes it.  So the generate prompt follows the end of the audit response,
\* and the read follows the end of the generate response and the close.
C14_ConversationOrdered ==
    /\ \E n \in 0..Len(Conversation) :
          \/ sem_ops = SubSeq(Conversation, 1, n)
          \/ n \in 1..4 /\ sem_ops = Append(SubSeq(Conversation, 1, n), "close")
    /\ sem_pc = "query_generate" => sem_ops[Len(sem_ops)] = "receive_audit"
    /\ sem_pc = "collect" => sem_ops[Len(sem_ops)] = "close"
    /\ sem_pc = "returned" => sem_ops = Conversation
C14_Witness ==
    /\ sem_pc = "returned"
    /\ sem_ops = Conversation

\* the scores of the audits of the call that returned, one per weight
Combined ==
    LET w == script.weights
    IN  IF Len(w) = 1 THEN 100 * results[1]
        ELSE IF Len(w) = 2 THEN w[1] * results[1] + w[2] * results[2]
        ELSE w[1] * results[1] + w[2] * results[2] + w[3] * results[3]

\* C15 (state part): while run_test runs no scorecard has been written; once
\* it has ended it has returned 0 and written exactly one scorecard, at the
\* path of its test_id: the weighted sum of the audit scores when every audit
\* returned, else score 0 with an "error" entry in the metadata.
C15_ScorecardState ==
    /\ ~exit_status.returned => writes = << >>
    /\ exit_status.returned =>
          /\ exit_status.value = 0
          /\ Len(writes) = 1
          /\ writes[1].path = result_file_path(script.test_id)
          /\ writes[1].content.parses
          /\ LET card == writes[1].content.obj
             IN  IF sem_pc = "returned"
                 THEN /\ audits = Len(script.weights)
                      /\ Len(results) = audits
                      /\ card.score = Combined
                 ELSE /\ sem_pc = "raised"
                      /\ card.score = 0
                      /\ "error" \in DOMAIN card.metadata

\* C15: the state part always holds, and once a semantic_test call has raised
\* no further audit is started.
C15_OneScorecardAlways ==
    /\ []C15_ScorecardState
    /\ [][sem_pc = "raised" => (sem_pc' = "raised" /\ audits' = audits)]_vars
C15_Witness ==
    /\ exit_status = Returned(0)
    /\ sem_pc = "raised"
    /\ sem_exc = "FileNotFoundError"
    /\ Len(results) = 1
    /\ Len(script.weights) = 2

\* the pairs whose pre-step has ended with a non-zero exit status
PreStepFailed(p) == \E i \in DOMAIN ops : ops[i] = [pair |-> p, op |-> "pre_done", arg |-> 1]
\* the last step recorded
LastOp == ops[Len(ops)]

\* C16 (state part): in a pair whose pre-step exited non-zero, a scorecard is
\* read only from a test execution that followed the pre-step and was given
\* the test id of the path read, and once the scorecard has been ingested the
\* Test Runner has returned a result with the metadata of that scorecard.
C16_State ==
    \A p \in Pairs : PreStepFailed(p) =>
        /\ \A j \in DOMAIN ops : (ops[j].pair = p /\ ops[j].op = "cat") =>
              \E i \in 1..(j - 1) : \E h \in 1..(i - 1) :
                  /\ ops[h] = [pair |-> p, op |-> "pre_done", arg |-> 1]
                  /\ ops[i] = [pair |-> p, op |-> "exec_test", arg |-> ops[j].arg]
        /\ (p = pairIdx /\ pc = "rm_container" /\ LastOp.op = "ingest") =>
              /\ ~test_result.none
              /\ test_result.metadata = json_loads(result.output).metadata
              /\ "test_results.json" \in DOMAIN runDirs[run_dir]

\* C16 (step part): the step in which the pre-step ends with a non-zero exit
\* status takes the Test Runner to the test execution, with nothing failed and
\* nothing logged; and a test execution the daemon accepts is given the test id
\* of the pair in EVAL_RECIPES_TEST_ID.
C16_Step ==
    /\ (Len(ops') = Len(ops) + 1 /\ ops'[Len(ops')].op = "pre_done"
                                 /\ ops'[Len(ops')].arg # 0) =>
          (pc' = "t_exec" /\ test_result' = test_result /\ logged' = logged)
    /\ (pc = "t_exec" /\ faults' = faults /\ pc' # "t_exec" /\ pairIdx' = pairIdx
                      /\ exc' = exc) =>
          (pc' = "t_stream" /\ exec_env' = test_id /\ test_id' = test_id)

\* C16: a pre-step that exits non-zero does not abort the Test Runner: the
\* test script is still executed with its test id and its scorecard is still
\* read and returned.
C16_PreStepFailureIgnored == []C16_State /\ [][C16_Step]_vars
C16_Witness ==
    /\ PreStepFailed(pairIdx)
    /\ pc = "rm_container"
    /\ LastOp.op = "ingest"
    /\ ~test_result.none

\* the pre-step log, under the name the code gives it and the name of the spec
PreStepLogs == {"test_commands_output.log", "test_install_output.log"}

\* C17: for a pair whose task has no test_commands.sh, the container never
\* holds /project/test_commands.sh, no pre-step is executed or ends, and
\* run_dir never holds a pre-step log.
C17_NoPreStep ==
    \A p \in Pairs : ~TaskOf(p).test_commands_script =>
        /\ \A i \in DOMAIN ops : ops[i].pair = p => ops[i].op \notin {"exec_pre", "pre_done"}
        /\ (p = pairIdx /\ Created(p)) => \A f \in project : f.path # TestCommandsPath
        /\ DirOf(p) \in DOMAIN runDirs => DOMAIN runDirs[DirOf(p)] \cap PreStepLogs = {}
C17_Witness ==
    \E p \in Pairs :
        /\ ~TaskOf(p).test_commands_script
        /\ Did(p, "put_archive") /\ Did(p, "exec_test") /\ Did(p, "cat")
        /\ Done(p)

\* C18: for a pair whose image build failed, no container has been created
\* and nothing but the image removal has been asked of the daemon.
C18_BuildFailureStops ==
    \A p \in Pairs : Did(p, "build_failed") =>
        /\ ~Created(p)
        /\ p \notin containers
        /\ \A i \in DOMAIN ops : ops[i].pair = p =>
              ops[i].op \in {"build_failed", "rm_image", "rm_image_failed", "interrupted"}
C18_Witness ==
    \E p \in Pairs : Did(p, "build_failed") /\ Done(p)

\* the Test Runner of the current pair has just ingested a scorecard
Ingested == pc = "rm_container" /\ LastOp.pair = pairIdx /\ LastOp.op = "ingest"

\* C19: every TestResult the Test Runner holds has a score within [0,100];
\* the result of an ingested scorecard has the score of the scorecard, 0 when
\* that is below 0 and 100 when it is above 100, and no error is logged.
C19_ResultScoreInRange ==
    /\ ~test_result.none => InRange(test_result.score)
    /\ Ingested =>
          LET s == json_loads(result.output).score
          IN  /\ ~test_result.none
              /\ test_result.score = IF s < 0 THEN 0 ELSE IF s > 100 THEN 100 ELSE s
              /\ <<"error", pairIdx, "Failed to run tests">> \notin logged
C19_Witness ==
    /\ Ingested
    /\ json_loads(result.output).score = 0 - 5
    /\ test_result.score = 0

\* C20: when a scorecard has been ingested, test_results.json read back is
\* the object parsed from the scorecard: same keys, same values.
C20_ResultsFileRoundTrip ==
    Ingested =>
        /\ "test_results.json" \in DOMAIN runDirs[run_dir]
        /\ LET card == json_loads(result.output)
               back == json_loads(runDirs[run_dir]["test_results.json"])
           IN  /\ DOMAIN back = DOMAIN card
               /\ \A k \in DOMAIN card : back[k] = card[k]
C20_Witness ==
    /\ Ingested
    /\ "extra" \in DOMAIN json_loads(result.output)
    /\ json_loads(runDirs[run_dir]["test_results.json"]) =
          [score |-> 137, metadata |-> [notes |-> "n"], extra |-> "x"]

\* C21: two distinct (agent, task) pairs of one invocation never get the same
\* run_dir: the map from the pair to <agent>_<task> is injective over the
\* loaded names.
C21_RunDirInjective ==
    \A i, j \in 1..Len(made) :
        (/\ made[i].invocation = made[j].invocation
         /\ <<made[i].agent, made[i].task>> # <<made[j].agent, made[j].task>>)
        => made[i].run_dir # made[j].run_dir

\* C22: two invocations given the same runs root write under different
\* time-stamped directories: a run_dir of the later invocation never coincides
\* with a run_dir of the earlier one.
C22_InvocationsApart ==
    \A i, j \in 1..Len(made) :
        made[i].invocation # made[j].invocation => made[i].run_dir # made[j].run_dir

\* the pair went through every step: agent, tests, container and image removal
Completed(p) ==
    /\ Done(p)
    /\ Did(p, "agent_done")
    /\ Did(p, "cat")
    /\ Did(p, "rm_container")
    /\ Did(p, "rm_image")

\* C23: after a pair's normal completion its run_dir holds agent_output.log,
\* test_output.log and test_results.json, and holds test_install_output.log
\* exactly when the task has a pre-test commands script.
C23_RunDirContents ==
    \A p \in Pairs : Completed(p) =>
        /\ DirOf(p) \in DOMAIN runDirs
        /\ {"agent_output.log", "test_output.log", "test_results.json"}
              \subseteq DOMAIN runDirs[DirOf(p)]
        /\ "test_install_output.log" \in DOMAIN runDirs[DirOf(p)]
              <=> TaskOf(p).test_commands_script

\* _load_agents of the current invocation has returned
AgentsLoaded == invocation >= 1 /\ load_pc \notin {"load_agents", "agent_entry"}
\* the entries of agents_dir that are directories holding all three files
CompleteAgentDirs ==
    IF agents_dir.exists
    THEN {n \in DOMAIN agents_dir.entries : agents_dir.entries[n] \in {"complete", "empty_yaml"}}
    ELSE {}

\* C24: _load_agents returns exactly one AgentConfig, named after the directory,
\* for each subdirectory of agents_dir that holds install.dockerfile,
\* command_template.txt and agent.yaml, none for a subdirectory missing one of
\* them or for an entry that is no directory, and the empty list, without an
\* error, when agents_dir does not exist.
C24_AgentsLoaded ==
    AgentsLoaded =>
        /\ Len(loaded_agents) = Cardinality(CompleteAgentDirs)
        /\ {loaded_agents[i].name : i \in DOMAIN loaded_agents} = CompleteAgentDirs
        /\ load_pc = "load_tasks" => load_exc = "none"
        /\ ~agents_dir.exists => loaded_agents = << >>

C24_Witness ==
    /\ load_pc = "load_tasks"
    /\ agents_dir.exists
    /\ DOMAIN agents_dir.entries = AgentNames
    /\ agents_dir.entries[<<1>>] = "no_template"
    /\ agents_dir.entries[<<1, 2>>] = "empty_yaml"
    /\ Len(loaded_agents) = 1
    /\ loaded_agents[1].name = <<1, 2>>

\* _load_tasks of the current invocation has come to its end, one way or the other
TasksLoaded == invocation >= 1 /\ load_pc \in {"pairs", "new", "raised"}
TaskDirsOf(kinds) ==
    IF tasks_dir.exists
    THEN {n \in DOMAIN tasks_dir.entries : tasks_dir.entries[n] \in kinds}
    ELSE {}

\* C25: _load_tasks skips, with a warning and without raising, every task
\* directory whose task.yaml has no task_info or an empty one, and still loads
\* every other task directory that has instructions.txt, test.py and a
\* task.yaml with task_info.
C25_TaskInfoSkipped ==
    TasksLoaded =>
        /\ TaskDirsOf({"no_task_info", "empty_task_info"}) # {} => load_exc = "none"
        /\ \A n \in TaskDirsOf({"no_task_info", "empty_task_info"}) :
              /\ [warning |-> "Skipping task", dir |-> n] \in load_logged
              /\ \A i \in DOMAIN loaded_tasks : loaded_tasks[i].name # n
        /\ \A n \in TaskDirsOf({"no_difficulty", "no_nde", "full", "full_commands"}) :
              \E i \in DOMAIN loaded_tasks : loaded_tasks[i].name = n

\* C26: the result of semantic_test is derived only from a rubric.json written
\* during that same call: a rubric.json left by an earlier call is never
\* returned as the later call's result, and a call in which the sub-agent
\* writes nothing raises the rubric-missing error.
C26_FreshRubricOnly ==
    /\ sem_pc = "returned" => rubric_written
    /\ (sem_pc \in {"returned", "raised"} /\ "read" \in Range(sem_ops)) => rubric_written

\* the Test Runner of the pair caught an exception
TestsFailed(p) == <<"error", p, "Failed to run tests">> \in logged
\* the Test Runner of the pair has been called
TestsEntered(p) == TestsFailed(p) \/ Did(p, "put_archive")
ContainerRemovals == {"rm_container", "rm_container_failed"}
ImageRemovals == {"rm_image", "rm_image_failed"}

\* C27: _run_tests never propagates an Exception: a failure inside it makes it
\* return None, and the orchestrator then still attempts the container removal
\* and, after it, the image removal.  Stated on the latest step of the
\* history, which only grows: the image removal that ends a pair whose Test
\* Runner failed comes right after that pair's container removal.
C27_TestsNeverRaise ==
    /\ exc \notin {"none", "KeyboardInterrupt"} => ~TestsEntered(pairIdx)
    /\ (pc = "rm_container" /\ TestsFailed(pairIdx)) => (test_result = None /\ exc = "none")
    /\ (pc = "finally_image" /\ exc = "none" /\ TestsFailed(pairIdx)) =>
          (LastOp.pair = pairIdx /\ LastOp.op \in ContainerRemovals)
    /\ (pc = "loop" /\ pairIdx > 1 /\ TestsFailed(pairIdx - 1)) =>
          /\ LastOp.pair = pairIdx - 1
          /\ LastOp.op \in ImageRemovals
          /\ ops[Len(ops) - 1].pair = pairIdx - 1
          /\ ops[Len(ops) - 1].op \in ContainerRemovals
C27_Witness ==
    /\ pc = "loop"
    /\ pairIdx = 2
    /\ TestsFailed(1)
    /\ Did(1, "cat")
    /\ LastOp.op = "rm_image"
    /\ ops[Len(ops) - 1].op = "rm_container"

\* C28: in the teardown the force-removal of the container is attempted before
\* the removal of the image; the image removal is still attempted when the
\* container removal fails; a failure of either is logged and does not raise.
\* Stated on the latest steps of the history: an attempted container removal
\* leaves the pair before its finally clause with no image removal behind it
\* and no exception, and what follows it is the image removal, after which the
\* loop goes on.
C28_TeardownOrder ==
    /\ (ops # << >> /\ LastOp.op \in ContainerRemovals) =>
          /\ pc = "finally_image"
          /\ pairIdx = LastOp.pair
          /\ exc = "none"
          /\ \A i \in DOMAIN ops : ops[i].pair = pairIdx => ops[i].op \notin ImageRemovals
          /\ LastOp.op = "rm_container_failed" => Warned(pairIdx, "Failed to remove container")
    /\ (Len(ops) >= 2 /\ ops[Len(ops) - 1].op \in ContainerRemovals) =>
          /\ LastOp.pair = ops[Len(ops) - 1].pair
          /\ LastOp.op \in ImageRemovals \cup {"interrupted"}
          /\ LastOp.op \in ImageRemovals =>
                /\ exc = "none"
                /\ pc # "raised"
                /\ pairIdx = LastOp.pair + 1
                /\ LastOp.op = "rm_image_failed" => Warned(LastOp.pair, "Failed to remove image")
C28_Witness ==
    /\ Len(ops) >= 2
    /\ ops[Len(ops) - 1].op = "rm_container_failed"
    /\ LastOp.op = "rm_image_failed"
    /\ pc = "loop"

\* C29: when the image was built but the container could not be started, the
\* teardown still runs: the image removal is attempted before the pair is
\* left.  Stated on the latest steps of the history: right after the failed
\* start the pair is at its finally clause, the image still there, and the
\* step that follows is the image removal, unless the process is interrupted
\* first.
C29_ImageRemovedAfterFailedStart ==
    /\ (ops # << >> /\ LastOp.op = "create_failed") =>
          /\ pc = "finally_image"
          /\ pairIdx = LastOp.pair
          /\ TagOf(pairIdx) \in images
    /\ (Len(ops) >= 2 /\ ops[Len(ops) - 1].op = "create_failed") =>
          /\ LastOp.pair = ops[Len(ops) - 1].pair
          /\ LastOp.op \in ImageRemovals \cup {"interrupted"}
          /\ LastOp.op = "rm_image" => TagOf(LastOp.pair) \notin images
C29_Witness ==
    /\ Len(ops) >= 2
    /\ ops[Len(ops) - 1].op = "create_failed"
    /\ LastOp.op = "rm_image"
    /\ ~Created(LastOp.pair)
    /\ TagOf(LastOp.pair) \notin images

\* the agent's command of the pair has ended with a non-zero exit status
AgentFailed(p) == \E i \in DOMAIN ops : ops[i].pair = p /\ ops[i].op = "agent_done" /\ ops[i].arg # 0

\* C30: once the agent exec has completed, the Test Runner is invoked whatever
\* the agent's exit status: a non-zero exit skips neither the test step nor the
\* teardown.  Stated on the latest steps of the history: the end of a failing
\* agent command leaves the pair before container.logs() with no exception,
\* and until the next step the pair is on its way into the Test Runner unless
\* container.logs() or the injection was rejected; the step that follows is the injection of the test script, or a removal
\* after a Docker call of the Test Runner or container.logs() failed; and a
\* pair of a failing agent that the loop has left went through the Test
\* Runner, the container removal and the image removal.
C30_AgentExitIgnored ==
    /\ (ops # << >> /\ LastOp.op = "agent_done" /\ LastOp.arg # 0) =>
          /\ pairIdx = LastOp.pair
          /\ \/ pc \in {"logs", "t_inject"} /\ exc = "none"
             \/ pc = "rm_container" /\ exc = "none" /\ TestsFailed(pairIdx)
             \/ pc = "finally_image" /\ exc = "APIError" /\ faults > 0
    /\ (Len(ops) >= 2 /\ ops[Len(ops) - 1].op = "agent_done" /\ ops[Len(ops) - 1].arg # 0) =>
          \/ LastOp.op = "put_archive"
          \/ LastOp.op \in ContainerRemovals /\ TestsFailed(LastOp.pair)
          \/ LastOp.op \in ImageRemovals /\ exc = "APIError"
          \/ LastOp.op = "interrupted"
    /\ (pc = "loop" /\ pairIdx > 1 /\ AgentFailed(pairIdx - 1)) =>
          /\ TestsEntered(pairIdx - 1)
          /\ LastOp.op \in ImageRemovals
          /\ ops[Len(ops) - 1].op \in ContainerRemovals
C30_Witness ==
    /\ pc = "loop"
    /\ pairIdx > 1
    /\ AgentFailed(pairIdx - 1)
    /\ Did(pairIdx - 1, "ingest")
    /\ LastOp.op = "rm_image"
    /\ ops[Len(ops) - 1].op = "rm_container"

\* C37: a malformed task manifest affects only its own task: a task directory
\* whose task_info lacks 'difficulty' or 'non_deterministic_evals' is skipped,
\* _load_tasks does not raise, and every well-formed task directory is still
\* loaded.
C37_MalformedTaskSkipped ==
    TasksLoaded =>
        /\ load_exc = "none"
        /\ \A n \in TaskDirsOf({"no_difficulty", "no_nde"}) :
              \A i \in DOMAIN loaded_tasks : loaded_tasks[i].name # n
        /\ \A n \in TaskDirsOf({"full", "full_commands"}) :
              \E i \in DOMAIN loaded_tasks : loaded_tasks[i].name = n

IsPrefix(a, b) == Len(a) <= Len(b) /\ a = SubSeq(b, 1, Len(a))
LogOf(name) == runDirs[run_dir][name]

\* C31: for each exec whose output is streamed (agent, pre-step, test), at
\* every moment the log file is the in-order concatenation of the non-empty
\* chunks received so far, stdout before stderr within a chunk, hence a prefix
\* of the whole; when the stream ends the log equals the whole concatenation;
\* the text returned for the test exec is the decoding of that same sequence
\* of bytes; and when the stream breaks midway the bytes already received
\* remain in the log.
C31_StreamLogs ==
    /\ pc = "agent_stream" => LogOf("output.log") \o AllBytes(stream) = AllBytes(AgentStream)
    /\ pc = "t_pre_stream" =>
          LogOf("test_commands_output.log") \o AllBytes(stream) = AllBytes(PreStream)
    /\ pc = "t_stream" => LogOf("test_output.log") \o AllBytes(stream) = AllBytes(TestStream)
    /\ (ops # << >> /\ LastOp.pair = pairIdx) =>
          /\ LastOp.op = "agent_done" => LogOf("output.log") = AllBytes(AgentStream)
          /\ LastOp.op = "pre_done" => LogOf("test_commands_output.log") = AllBytes(PreStream)
          /\ LastOp.op = "test_done" => LogOf("test_output.log") = AllBytes(TestStream)
          /\ LastOp.op = "agent_stream_broken" =>
                IsPrefix(LogOf("output.log"), AllBytes(AgentStream))
          /\ (LastOp.op = "exec_pre" /\ pc = "rm_container") =>
                IsPrefix(LogOf("test_commands_output.log"), AllBytes(PreStream))
          /\ (LastOp.op = "exec_test" /\ pc = "rm_container") =>
                IsPrefix(LogOf("test_output.log"), AllBytes(TestStream))
    /\ (pc = "rm_container" /\ ~test_result.none) =>
          test_result.test_output = decode(LogOf("test_output.log"))

RECURSIVE SumSeq(_)
SumSeq(w) == IF w = << >> THEN 0 ELSE Head(w) + SumSeq(Tail(w))

\* C32: in every test script that combines several audits the declared weights
\* are non-negative and sum to 100%, so that with each audit score in [0,100]
\* the combined score written to the scorecard is in [0,100], is 0 only if all
\* audit scores are 0 and is 100 only if all are 100.  The scorecard score is
\* kept in hundredths of a point: the sum of score times weight in percent.
C32_WeightedScoreInRange ==
    /\ \A i \in DOMAIN script.weights : script.weights[i] >= 0
    /\ SumSeq(script.weights) = 100
    /\ (exit_status.returned /\ sem_pc = "returned") =>
          LET card == writes[Len(writes)].content.obj
          IN  /\ \A i \in DOMAIN results : InRange(results[i])
              /\ 0 <= card.score /\ card.score <= 100 * 100
              /\ card.score = 0 => \A i \in DOMAIN results : results[i] = 0
              /\ card.score = 100 * 100 => \A i \in DOMAIN results : results[i] = 100
C32_Witness ==
    /\ exit_status.returned
    /\ sem_pc = "returned"
    /\ script.weights = <<25, 35, 40>>
    /\ results = <<100, 0, 50>>
    /\ writes[1].content.obj.score = 25 * 100 + 40 * 50

\* one single-character edit of s: a deletion, an insertion, a substitution
Edits(s) ==
    {SubSeq(s, 1, i - 1) \o SubSeq(s, i + 1, Len(s)) : i \in 1..Len(s)}
    \cup {SubSeq(s, 1, i) \o <<c>> \o SubSeq(s, i + 1, Len(s)) : i \in 0..Len(s), c \in Alphabet}
    \cup {[s EXCEPT ![i] = c] : i \in 1..Len(s), c \in Alphabet}
\* the strings that at most k edits make of s
RECURSIVE Within(_, _)
Within(s, k) ==
    IF k = 0 THEN {s}
    ELSE LET W == Within(s, k - 1) IN W \cup UNION {Edits(w) : w \in W}
\* the minimum number of edits that make t of s
MinEdits(s, t) ==
    CHOOSE k \in 0..(Len(s) + Len(t)) :
        /\ t \in Within(s, k)
        /\ k = 0 \/ t \notin Within(s, k - 1)

\* C36: levenshtein_distance returns the minimum number of single-character
\* insertions, deletions and substitutions that turn one string into the
\* other; the value is 0 exactly for equal strings, it is the same with the
\* arguments exchanged, and it is the length of the other string when one of
\* them is empty.
C36_LevenshteinIsEditDistance ==
    (prog = "levenshtein" /\ lev_ret.returned) =>
        LET s1 == lev_args[1]
            s2 == lev_args[2]
        IN  /\ lev_ret.value = MinEdits(s1, s2)
            /\ (lev_ret.value = 0) <=> (s1 = s2)
            /\ lev_ret.value = levenshtein_distance(s2, s1)
            /\ s1 = << >> => lev_ret.value = Len(s2)
            /\ s2 = << >> => lev_ret.value = Len(s1)
\* a call has returned for two different strings of full length, the first
\* letter replaced and the others equal
C36_Witness ==
    /\ prog = "levenshtein"
    /\ lev_ret.returned
    /\ Len(lev_args[1]) = MaxLen
    /\ Len(lev_args[2]) = MaxLen
    /\ lev_args[1][1] # lev_args[2][1]
    /\ \A i \in 2..MaxLen : lev_args[1][i] = lev_args[2][i]
    /\ lev_ret.value = 1

\* C35: arxiv's test always writes exactly one scorecard, with a score in
\* [0,100]: 100 for an edit distance d of at most 5, 100 - (d - 5) for d from
\* 6 to 104, 0 for d of 105 or more and for a missing Conclusion.txt; the
\* exit status is 0 only when d = 0.
C35_ArxivScorecard ==
    (prog = "arxiv" /\ py_pc \in {"returned", "raised"}) =>
        /\ Len(py_writes) = 1
        /\ LET score == py_writes[1].score
               d == lev_ret.value
           IN  /\ score \in 0..100
               /\ ~conclusion.exists => score = 0
               /\ conclusion.exists =>
                      /\ lev_ret.returned
                      /\ d <= 5 => score = 100
                      /\ d \in 6..104 => score = 100 - (d - 5)
                      /\ d >= 105 => score = 0
               /\ py_exit.value = 0 => (conclusion.exists /\ d = 0)

\* the prerequisite checks in the order of the claim, and what each of them
\* finds in the working directory
PrereqOrder == <<"start", "load_csv", "prompt_column", "row_count", "spot_checks", "summary_exists">>
PrereqPasses ==
    << workdir.csv_exists, workdir.csv_loads, workdir.has_prompt,
       workdir.nrows = 220,
       \A g \in GROUNDTRUTH_SPOT_CHECKS :
           \E p \in workdir.prompts : levenshtein_distance(g, p) <= 5,
       workdir.summary # "missing" >>
AllPrereqPass == \A i \in 1..Len(PrereqOrder) : PrereqPasses[i]
FirstFailing == CHOOSE i \in 1..Len(PrereqOrder) : ~PrereqPasses[i] /\ \A k \in 1..(i - 1) : PrereqPasses[k]
PyEnded == py_pc \in {"returned", "raised"}

\* C33: gdpval's test runs its prerequisite checks in the fixed order CSV
\* exists, CSV loads, prompt column, 220 rows, spot checks, summary exists; at
\* the first failing one it writes exactly one scorecard with score 0, returns
\* 1 and never runs the claim verification.
C33_PrerequisitesInOrder ==
    prog = "gdpval" =>
        /\ IsPrefix(py_ops, PrereqOrder \o <<"verify">>)
        /\ ~PyEnded => py_writes = << >>
        /\ (PyEnded /\ ~AllPrereqPass) =>
               /\ py_ops = SubSeq(PrereqOrder, 1, FirstFailing)
               /\ Len(py_writes) = 1
               /\ py_writes[1].score = 0
               /\ py_exit = Returned(1)
\* the run ended at the spot checks: four checks passed, one prompt of the
\* ground truth has no row within the buffer
C33_Witness ==
    /\ prog = "gdpval"
    /\ PyEnded
    /\ ~AllPrereqPass
    /\ FirstFailing = 5
    /\ Len(py_ops) = 5
    /\ Len(py_writes) = 1

\* C34: when all prerequisite checks pass, gdpval's test writes the final
\* score 50 + (verification_score / 100) * 50, within [50,100]; a claim
\* verification that fails or returns no metrics gives exactly 50; the exit
\* status is 0 only for a final score of exactly 100.
C34_FinalScore ==
    (prog = "gdpval" /\ PyEnded /\ AllPrereqPass) =>
        /\ Len(py_writes) = 1
        /\ LET score == py_writes[1].score
               metrics == workdir.summary = "text" /\ workdir.verifier.kind = "metrics"
           IN  /\ score \in 50..100
               /\ metrics => 2 * score = 100 + workdir.verifier.score
               /\ ~metrics => score = 50
               /\ py_exit.value = 0 => score = 100

====
